---------------------------- MODULE Spec2Model ----------------------------
(***************************************************************************)
(* Model of the construction chatbot back end: the intent resolver         *)
(* (QueryProcessor.analyze_query with its entity extractor and pattern     *)
(* classifier), the operation dispatcher                                   *)
(* (QueryProcessor.execute_database_operation), the project identity       *)
(* resolver (ProjectQueries) and the phase-progress aggregators.           *)
(*                                                                         *)
(* Python strings are sequences of one-character strings, so that case     *)
(* folding, substring search and the regular expressions of the source are *)
(* computed and not assumed.                                               *)
(***************************************************************************)
EXTENDS Integers, Sequences, FiniteSets, TLC

\* ------------------------------------------------------------------------
\* Bounds of the model
\* ------------------------------------------------------------------------
MaxPhases == 3        \* phases of a project
MaxSubphases == 2     \* subphases of a project, over all its phases
MaxTasks == 1         \* tasks of a project, over all its subphases
MaxProjects == 3      \* rows of the projects table
MaxStamp == 2         \* distinct updatedAt values

\* ------------------------------------------------------------------------
\* Characters and Python str methods
\* ------------------------------------------------------------------------
UpperLetters == <<"A", "B", "C", "D", "E", "F", "G", "H", "I", "J", "K", "L", "M", "N", "O", "P", "Q", "R", "S", "T", "U", "V", "W", "X", "Y", "Z">>
LowerLetters == <<"a", "b", "c", "d", "e", "f", "g", "h", "i", "j", "k", "l", "m", "n", "o", "p", "q", "r", "s", "t", "u", "v", "w", "x", "y", "z">>
Digits == <<"0", "1", "2", "3", "4", "5", "6", "7", "8", "9">>

IndexOf(c, seq) == IF \E i \in 1..Len(seq) : seq[i] = c
                   THEN CHOOSE i \in 1..Len(seq) : seq[i] = c
                   ELSE 0

IsUpperC(c) == IndexOf(c, UpperLetters) > 0
IsLowerC(c) == IndexOf(c, LowerLetters) > 0
IsLetter(c) == IsUpperC(c) \/ IsLowerC(c)
IsDigit(c) == IndexOf(c, Digits) > 0

LowerC(c) == IF IsUpperC(c) THEN LowerLetters[IndexOf(c, UpperLetters)] ELSE c
UpperC(c) == IF IsLowerC(c) THEN UpperLetters[IndexOf(c, LowerLetters)] ELSE c

\* str.lower(), str.upper(), str.title()
Lower(s) == [i \in 1..Len(s) |-> LowerC(s[i])]
Upper(s) == [i \in 1..Len(s) |-> UpperC(s[i])]
Title(s) == [i \in 1..Len(s) |->
               IF i = 1 \/ ~IsLetter(s[IF i = 1 THEN 1 ELSE i - 1])
               THEN UpperC(s[i]) ELSE LowerC(s[i])]

\* str.strip()
Strip(s) ==
    LET keep == {i \in 1..Len(s) : s[i] # " "}
    IN IF keep = {} THEN <<>>
       ELSE LET lo == CHOOSE i \in keep : \A j \in keep : i <= j
                hi == CHOOSE i \in keep : \A j \in keep : i >= j
            IN SubSeq(s, lo, hi)

\* lit occurs in s starting at position p
OccursAt(lit, s, p) ==
    /\ p >= 1
    /\ p + Len(lit) - 1 <= Len(s)
    /\ \A k \in 1..Len(lit) : s[p + k - 1] = lit[k]

\* the positions >= from where some literal of the set lits occurs in s
Occurrences(lits, s, from) ==
    {p \in from..Len(s) : \E lit \in lits : OccursAt(lit, s, p)}

\* Python `lit in s`
Contains(s, lit) == \E p \in 1..Len(s) : OccursAt(lit, s, p)

Min(S) == CHOOSE x \in S : \A y \in S : x <= y
Max(S) == CHOOSE x \in S : \A y \in S : x >= y

\* int() of a string of decimal digits
RECURSIVE ParseInt(_)
ParseInt(s) == IF s = <<>> THEN 0
               ELSE 10 * ParseInt(SubSeq(s, 1, Len(s) - 1))
                    + (IndexOf(s[Len(s)], Digits) - 1)

\* ------------------------------------------------------------------------
\* Python values held in an analysis: None, a string, an integer, a dict
\* (a function from keys to values), a list
\* ------------------------------------------------------------------------
None == [t |-> "none"]
Str(s) == [t |-> "str", v |-> s]
Num(n) == [t |-> "int", v |-> n]
Dict(v) == [t |-> "dict", v |-> v]
List(v) == [t |-> "list", v |-> v]

\* Python truthiness of such a value
Truthy(x) ==
    CASE x.t = "none" -> FALSE
      [] x.t = "str" -> x.v # <<>>
      [] x.t = "int" -> x.v # 0
      [] x.t = "bool" -> x.v
      [] x.t = "dict" -> DOMAIN x.v # {}
      [] x.t = "list" -> x.v # <<>>
      [] OTHER -> TRUE

\* ------------------------------------------------------------------------
\* re.search for the shapes of pattern the source uses
\* ------------------------------------------------------------------------
\* a pattern  seg1.*seg2.*...  where every segment is a set of literals
RECURSIVE MatchFrom(_, _, _, _)
MatchFrom(s, segs, k, from) ==
    IF k > Len(segs) THEN TRUE
    ELSE \E p \in from..Len(s) : \E lit \in segs[k] :
            /\ OccursAt(lit, s, p)
            /\ MatchFrom(s, segs, k + 1, p + Len(lit))

Search(s, segs) == MatchFrom(s, segs, 1, 1)

\* the alternatives of A followed by the alternatives of B
Cat(A, B) == {a \o b : a \in A, b \in B}

\* the character classes \w and [\w\s-]
WordChar(c) == IsLetter(c) \/ IsDigit(c) \/ c = "_"
CapChar(c) == WordChar(c) \/ c = " " \/ c = "-"

\* the length of the longest run of characters of a class that starts at st
RunLen(s, st, Class(_)) ==
    Cardinality({e \in st..Len(s) : \A i \in st..e : Class(s[i])})

\* ([\w\s-]+)(?:\?|$) from st, or ([\w\s-]+)(?:\?|$|in) when allowIn:
\* greedy, so the longest capture that a terminator follows
TryCapture(s, st, allowIn) ==
    LET e == st - 1 + RunLen(s, st, CapChar)
        ins == {e2 \in st..(e - 2) : s[e2 + 1] = "i" /\ s[e2 + 2] = "n"}
    IN IF e >= st /\ (e = Len(s) \/ s[e + 1] = "?")
       THEN [ok |-> TRUE, v |-> SubSeq(s, st, e)]
       ELSE IF allowIn /\ ins # {}
       THEN [ok |-> TRUE, v |-> SubSeq(s, st, Max(ins))]
       ELSE [ok |-> FALSE, v |-> <<>>]

\* (?:project |the )?([\w\s-]+)(?:...) from st0: the optional group is tried
\* first and given up when the rest fails
CaptureAt(s, st0, allowIn) ==
    LET st1 == IF OccursAt(<<"p", "r", "o", "j", "e", "c", "t", " ">>, s, st0) THEN st0 + 8
               ELSE IF OccursAt(<<"t", "h", "e", " ">>, s, st0) THEN st0 + 4
               ELSE st0
        c1 == TryCapture(s, st1, allowIn)
    IN IF st1 # st0 /\ c1.ok THEN c1 ELSE TryCapture(s, st0, allowIn)

\* re.search(r"KEY (?:project |the )?([\w\s-]+)(?:\?|$)", s): the leftmost
\* position where the whole pattern matches; the group, stripped, or None
Capture(s, keys, allowIn) ==
    LET After(p) == p + Len(CHOOSE k \in keys : OccursAt(k, s, p))
        ps == {p \in Occurrences(keys, s, 1) : CaptureAt(s, After(p), allowIn).ok}
    IN IF ps = {} THEN None
       ELSE Str(Strip(CaptureAt(s, After(Min(ps)), allowIn).v))

ForKeys == {<<"f", "o", "r", " ">>}
OfForKeys == {<<"o", "f", " ">>, <<"f", "o", "r", " ">>}
PhaseIsKeys == {<<"s", "t", "a", "g", "e", " ", "i", "s", " ">>, <<"p", "h", "a", "s", "e", " ", "i", "s", " ">>}

\* re.search(r"(milestone).*(project |the )?([\w\s-]+)(?:\?|$)", s): the greedy
\* .* leaves the capture the last character that a terminator follows
MilestoneCapture(s) ==
    LET ms == Occurrences({<<"m", "i", "l", "e", "s", "t", "o", "n", "e">>}, s, 1)
        bs == {b \in 1..Len(s) :
                 /\ ms # {} /\ b >= Min(ms) + 9
                 /\ CapChar(s[b])
                 /\ (b = Len(s) \/ s[b + 1] = "?")}
    IN IF bs = {} THEN None ELSE Str(Strip(<<s[Max(bs)]>>))

\* re.search(r"overdue is ([\w\s-]+) selection", s): greedy up to the last
\* " selection" that the run of [\w\s-] reaches
OverdueCapture(s) ==
    LET key == <<"o", "v", "e", "r", "d", "u", "e", " ", "i", "s", " ">>
        sel == <<" ", "s", "e", "l", "e", "c", "t", "i", "o", "n">>
        ok(p) == {e \in (p + Len(key))..(p + Len(key) - 1 + RunLen(s, p + Len(key), CapChar)) :
                     OccursAt(sel, s, e + 1)}
        ps == {p \in Occurrences({key}, s, 1) : ok(p) # {}}
    IN IF ps = {} THEN None
       ELSE LET p == Min(ps)
            IN Str(Strip(SubSeq(s, p + Len(key), Max(ok(p)))))

\* re.search(r"next (\d+)?\s+(week|day)", s): the greedy digits, then the
\* greedy whitespace (at least one character), then the unit
IsDigits(s, a, b) == a <= b /\ \A i \in a..b : IsDigit(s[i])
NextTimeMatch(s) ==
    LET key == <<"n", "e", "x", "t", " ">>
        units == {<<"w", "e", "e", "k">>, <<"d", "a", "y">>}
        d(p) == RunLen(s, p + 5, IsDigit)
        w(p) == RunLen(s, p + 5 + d(p), LAMBDA c : c = " ")
        at(p) == p + 5 + d(p) + w(p)
        ps == {p \in Occurrences({key}, s, 1) :
                  w(p) >= 1 /\ \E u \in units : OccursAt(u, s, at(p))}
    IN IF ps = {} THEN [ok |-> FALSE, number |-> None, unit |-> <<>>]
       ELSE LET p == Min(ps)
            IN [ok |-> TRUE,
                number |-> IF d(p) = 0 THEN None
                           ELSE Num(ParseInt(SubSeq(s, p + 5, p + 4 + d(p)))),
                unit |-> CHOOSE u \in units : OccursAt(u, s, at(p))]

\* re.search(r"milestone [#]?(\d+)", s): the number, or None
MilestoneNumber(s) ==
    LET key == <<"m", "i", "l", "e", "s", "t", "o", "n", "e", " ">>
        start(p) == IF p + 10 <= Len(s) /\ s[p + 10] = "#" THEN p + 11 ELSE p + 10
        ps == {p \in Occurrences({key}, s, 1) :
                  start(p) <= Len(s) /\ IsDigit(s[start(p)])}
    IN IF ps = {} THEN None
       ELSE LET st == start(Min(ps))
                e == Max({e \in st..Len(s) : IsDigits(s, st, e)})
            IN Num(ParseInt(SubSeq(s, st, e)))

\* re.search(r"milestone [^0-9#]*?([a-zA-Z\s-]+)", s): the lazy prefix skips
\* as little as possible, the capture is the run of [a-zA-Z\s-] that follows
NameChar(c) == IsLetter(c) \/ c = " " \/ c = "-"
MilestoneName(s) ==
    LET key == <<"m", "i", "l", "e", "s", "t", "o", "n", "e", " ">>
        first(p) == {b \in (p + 10)..Len(s) :
                       /\ NameChar(s[b])
                       /\ \A i \in (p + 10)..(b - 1) : ~IsDigit(s[i]) /\ s[i] # "#"}
        ps == {p \in Occurrences({key}, s, 1) : first(p) # {}}
    IN IF ps = {} THEN None
       ELSE LET b == Min(first(Min(ps)))
                e == Max({e \in b..Len(s) : \A i \in b..e : NameChar(s[i])})
            IN Str(Strip(SubSeq(s, b, e)))

\* re.search(r"(designer|developer|client)", s): the leftmost alternative
RoleMatch(s) ==
    LET roles == {<<"d", "e", "s", "i", "g", "n", "e", "r">>, <<"d", "e", "v", "e", "l", "o", "p", "e", "r">>, <<"c", "l", "i", "e", "n", "t">>}
        ps == Occurrences(roles, s, 1)
    IN IF ps = {} THEN None
       ELSE Str(CHOOSE r \in roles : OccursAt(r, s, Min(ps)))

\* ------------------------------------------------------------------------
\* Inputs: the texts of the users
\* ------------------------------------------------------------------------
PhaseText == <<"W", "h", "a", "t", " ", "p", "h", "a", "s", "e", " ", "i", "s", " ", "C", "A", "B", "O", "T", "-", "1", "B", " ", "i", "n", "?">>

Texts == {
    PhaseText,
    <<"w", "h", "a", "t", " ", "i", "s", " ", "t", "h", "e", " ", "s", "t", "a", "t", "u", "s", " ", "o", "f", " ", "C", "A", "B", "O", "T", "?">>,
    <<"l", "i", "s", "t", " ", "p", "r", "o", "j", "e", "c", "t", "s", " ", "w", "i", "t", "h", " ", "o", "p", "e", "n", " ", "s", "e", "l", "e", "c", "t", "i", "o", "n", "s">>,
    <<"l", "i", "s", "t", " ", "p", "r", "o", "j", "e", "c", "t", "s", " ", "p", "r", "o", "g", "r", "e", "s", "s", " ", "f", "o", "r", " ", "c", "a", "b", "o", "t", "-", "1", "b">>,
    <<"l", "i", "s", "t", " ", "p", "r", "o", "j", "e", "c", "t", "s">>,
    <<"S", "h", "o", "w", " ", "m", "e", " ", "a", "l", "l", " ", "a", "c", "t", "i", "v", "e", " ", "p", "r", "o", "j", "e", "c", "t", "s", " ", "c", "h", "a", "r", "t">>,
    <<"p", "r", "o", "j", "e", "c", "t", " ", "s", "t", "a", "t", "u", "s", " ", "b", "u", "d", "g", "e", "t">>,
    <<"b", "u", "d", "g", "e", "t", " ", "c", "h", "a", "r", "t", " ", "f", "o", "r", " ", "J", "A", "I", "N", "-", "1", "B">>,
    <<"h", "e", "l", "l", "o">>,
    <<"d", "u", "e", " ", "2", "0", "2", "4", "-", "1", "2", "-", "2", "5", " ", "o", "r", " ", "1", "2", "/", "2", "5", "/", "2", "0", "2", "4", " ", "t", "h", "i", "s", " ", "w", "e", "e", "k", " ", "c", "o", "m", "p", "l", "e", "t", "e", "d">>,
    <<"w", "h", "i", "c", "h", " ", "p", "a", "y", "m", "e", "n", "t", " ", "m", "i", "l", "e", "s", "t", "o", "n", "e", " ", "i", "s", " ", "c", "a", "b", "o", "t", " ", "c", "u", "r", "r", "e", "n", "t", "l", "y", " ", "a", "t">>,
    <<"c", "o", "m", "p", "a", "r", "e", " ", "c", "a", "b", "o", "t", "-", "1", "b", " ", "v", "s", " ", "j", "a", "i", "n", "-", "1", "b", " ", "p", "i", "e", " ", "g", "r", "a", "p", "h">>,
    <<"i", "s", " ", "p", "a", "y", "m", "e", "n", "t", " ", "m", "i", "l", "e", "s", "t", "o", "n", "e", " ", "#", "2", " ", "i", "n", "v", "o", "i", "c", "e", "d", " ", "f", "o", "r", " ", "t", "h", "e", " ", "c", "a", "b", "o", "t", "-", "1", "a">>,
    <<"s", "e", "l", "e", "c", "t", "i", "o", "n", "s", " ", "c", "o", "m", "i", "n", "g", " ", "d", "u", "e", " ", "n", "e", "x", "t", " ", "3", " ", "w", "e", "e", "k", "s">>
}

\* ------------------------------------------------------------------------
\* Python dicts: functions from keys to values
\* ------------------------------------------------------------------------
EmptyDict == [k \in {} |-> None]
HasKey(d, k) == k \in DOMAIN d
DictSet(d, k, v) == [x \in (DOMAIN d) \cup {k} |-> IF x = k THEN v ELSE d[x]]

\* ------------------------------------------------------------------------
\* QueryProcessor._pattern_matching_fallback: the ordered rules
\* ------------------------------------------------------------------------
WhatWhich == {<<"w", "h", "a", "t", " ">>, <<"w", "h", "i", "c", "h", " ">>}
StatusLead == {<<"w", "h", "a", "t", "'", "s", " ", "t", "h", "e", " ">>, <<"w", "h", "a", "t", " ", "i", "s", " ", "t", "h", "e", " ">>, <<"c", "u", "r", "r", "e", "n", "t", " ">>}
WantsChart(q) == \E w \in {<<"c", "h", "a", "r", "t">>, <<"g", "r", "a", "p", "h">>, <<"v", "i", "s", "u", "a", "l">>} : Contains(q, w)

\* the analysis every rule returns: intent, tables, filters (and, for the
\* progress rule, the chart keys); the free-text explanation is left out
Analysis(intent, tables, filters) ==
    Dict([intent |-> intent, tables |-> tables, filters |-> Dict(filters)])

ListProjectsResult(q) ==
    LET status == IF Contains(q, <<"a", "c", "t", "i", "v", "e">>) THEN Str(<<"a", "c", "t", "i", "v", "e">>)
                  ELSE IF Contains(q, <<"c", "o", "m", "p", "l", "e", "t", "e", "d">>) THEN Str(<<"C", "o", "m", "p", "l", "e", "t", "e", "d">>)
                  ELSE None
    IN Analysis("list_projects", <<"projects">>,
                IF Truthy(status) THEN [status |-> status] ELSE EmptyDict)

UpcomingSelectionsResult(q) ==
    LET m == NextTimeMatch(q)
        number == IF m.ok THEN (IF Truthy(m.number) THEN m.number ELSE Num(1))
                  ELSE Num(2)
        unit == IF m.ok THEN Str(m.unit) ELSE Str(<<"w", "e", "e", "k">>)
    IN Analysis("upcoming_selections", <<"selection_items">>,
                [timeframe |-> Dict([number |-> number, unit |-> unit])])

ProjectProgressResult(q) ==
    Dict([intent |-> IF WantsChart(q) THEN "project_status" ELSE "project_details",
          tables |-> <<"projects", "phases">>,
          filters |-> Dict([project_name |-> Capture(q, OfForKeys, FALSE)]),
          generate_chart |-> WantsChart(q),
          chart_type |-> "phase_progress"])

\* The rules in the order of the source: <<matches, result>>
Rules(q) == <<
    <<Search(q, <<{<<"o", "p", "e", "n", " ", "s", "e", "l", "e", "c", "t", "i", "o", "n">>}>>),
      Analysis("list_selections", <<"selection_items", "projects">>,
               [status |-> Str(<<"O", "p", "e", "n">>), project_name |-> Capture(q, ForKeys, FALSE)])>>,
    <<Search(q, <<{<<"o", "v", "e", "r", "d", "u", "e", " ", "i", "s", " ">>}, {<<" ", "s", "e", "l", "e", "c", "t", "i", "o", "n">>}>>),
      Analysis("selection_overdue", <<"selection_items">>,
               [selection_name |-> OverdueCapture(q)])>>,
    <<Search(q, <<{<<"s", "e", "l", "e", "c", "t", "i", "o", "n">>}, {<<" ", "c", "o", "m", "i", "n", "g">>, <<" ", "d", "u", "e">>, <<" ", "u", "p", "c", "o", "m", "i", "n", "g">>},
                  {<<" ", "w", "e", "e", "k">>, <<" ", "d", "a", "y">>}>>), UpcomingSelectionsResult(q)>>,
    <<Search(q, <<Cat(WhatWhich, {<<"s", "t", "a", "g", "e", " ", "i", "s">>, <<"p", "h", "a", "s", "e", " ", "i", "s">>})>>),
      Analysis("project_phase_status",
               <<"projects", "project_phase_assignments", "project_phases", "project_stages">>,
               [project_name |-> Capture(q, PhaseIsKeys, TRUE)])>>,
    <<(/\ Search(q, <<Cat(WhatWhich, {<<"i", "t", "e", "m", "s">>}),
                      {<<"n", "e", "e", "d">>, <<"p", "e", "n", "d", "i", "n", "g">>, <<"r", "e", "m", "a", "i", "n", "i", "n", "g">>},
                      {<<"c", "o", "m", "p", "l", "e", "t", "e">>, <<"f", "i", "n", "i", "s", "h">>}>>)
       /\ Search(q, <<Cat({<<"c", "u", "r", "r", "e", "n", "t", " ">>, <<"t", "h", "i", "s", " ">>}, {<<"p", "h", "a", "s", "e">>, <<"s", "t", "a", "g", "e">>})>>)),
      Analysis("phase_pending_tasks",
               <<"projects", "project_phase_assignments", "phase_tasks", "phase_task_assignments">>,
               [project_name |-> Capture(q, ForKeys, FALSE)])>>,
    <<Search(q, <<{<<"p", "d", " ", "w", "a", "l", "k", "t", "h", "r", "o", "u", "g", "h">>}, {<<"n", "e", "e", "d">>, <<"s", "c", "h", "e", "d", "u", "l", "e">>, <<"d", "u", "e">>}>>),
      Analysis("pd_walkthroughs_needed", <<"walkthroughs", "walkthrough_types", "projects">>,
               [walkthrough_type |-> Str(<<"P", "D">>), status |-> Str(<<"N", "o", "t", " ", "S", "c", "h", "e", "d", "u", "l", "e", "d">>)])>>,
    <<Search(q, <<{<<"c", "l", "i", "e", "n", "t", " ", "w", "a", "l", "k", "t", "h", "r", "o", "u", "g", "h">>}, {<<"n", "e", "e", "d">>, <<"s", "c", "h", "e", "d", "u", "l", "e">>, <<"d", "u", "e">>}>>),
      Analysis("client_walkthroughs_needed", <<"walkthroughs", "walkthrough_types", "projects">>,
               [walkthrough_type |-> Str(<<"C", "l", "i", "e", "n", "t">>), status |-> Str(<<"N", "o", "t", " ", "S", "c", "h", "e", "d", "u", "l", "e", "d">>)])>>,
    <<Search(q, <<Cat({<<"r", "e", "c", "e", "n", "t", " ">>, <<"l", "a", "s", "t", " ">>}, {<<"c", "l", "i", "e", "n", "t", " ", "w", "a", "l", "k", "t", "h", "r", "o", "u", "g", "h">>}),
                  {<<"c", "o", "m", "p", "l", "e", "t", "e">>, <<"f", "i", "n", "i", "s", "h">>}>>),
      Analysis("recent_walkthrough_status", <<"walkthroughs", "walkthrough_types", "projects">>,
               [walkthrough_type |-> Str(<<"C", "l", "i", "e", "n", "t">>),
                project_name |-> Capture(q, ForKeys, FALSE)])>>,
    <<(\/ Search(q, <<Cat(WhatWhich, {<<"n", "e", "e", "d">>, <<"s", "t", "i", "l", "l", " ", "n", "e", "e", "d">>}),
                      {<<"b", "u", "y">>, <<"p", "u", "r", "c", "h", "a", "s", "e">>, <<"b", "o", "u", "g", "h", "t">>, <<"o", "r", "d", "e", "r">>, <<"p", "o">>}>>)
       \/ Search(q, <<{<<"t", "r", "a", "d", "e", "s">>}, {<<"n", "e", "e", "d">>, <<"m", "i", "s", "s", "i", "n", "g">>},
                      {<<"p", "o">>, <<"p", "u", "r", "c", "h", "a", "s", "e", " ", "o", "r", "d", "e", "r">>}>>)),
      Analysis("trades_needing_po", <<"trades", "bid_packages", "purchase_orders", "projects">>,
               [project_name |-> Capture(q, ForKeys, FALSE)])>>,
    <<Search(q, <<Cat(WhatWhich, {<<"p", "a", "y", "m", "e", "n", "t", " ", "m", "i", "l", "e", "s", "t", "o", "n", "e">>}),
                  {<<"c", "u", "r", "r", "e", "n", "t", "l", "y", " ", "a", "t">>, <<"n", "o", "w", " ", "a", "t">>}>>),
      Analysis("current_payment_milestone", <<"payment_milestones", "projects">>,
               [project_name |-> MilestoneCapture(q)])>>,
    <<Search(q, <<Cat(WhatWhich, {<<"p", "r", "o", "j", "e", "c", "t">>}), {<<"b", "i", "l", "l">>},
                  {<<"t", "h", "i", "s", " ", "w", "e", "e", "k">>, <<"n", "e", "x", "t", " ", "w", "e", "e", "k">>}>>),
      Analysis("billable_projects", <<"payment_milestones", "projects">>,
               [status |-> Str(<<"R", "e", "a", "d", "y", " ", "f", "o", "r", " ", "B", "i", "l", "l", "i", "n", "g">>)])>>,
    <<Search(q, <<Cat({<<"h", "a", "s", " ">>, <<"h", "a", "v", "e", " ">>, <<"i", "s", " ">>}, {<<"p", "a", "y", "m", "e", "n", "t", " ", "m", "i", "l", "e", "s", "t", "o", "n", "e">>}),
                  {<<"i", "s", "s", "u", "e">>, <<"i", "n", "v", "o", "i", "c", "e">>}>>),
      Analysis("payment_milestone_status", <<"payment_milestones", "projects">>,
               [milestone_number |-> MilestoneNumber(q),
                milestone_name |-> MilestoneName(q),
                project_name |-> Capture(q, ForKeys, FALSE)])>>,
    <<Search(q, <<Cat(Cat({<<"w", "h", "o", " ", "i", "s", " ", "t", "h", "e", " ">>, <<"w", "h", "a", "t", " ", "i", "s", " ", "t", "h", "e", " ">>},
                          {<<"d", "e", "s", "i", "g", "n", "e", "r", " ">>, <<"d", "e", "v", "e", "l", "o", "p", "e", "r", " ">>, <<"c", "l", "i", "e", "n", "t", " ">>}),
                      {<<"f", "o", "r">>, <<"o", "f">>})>>),
      Analysis("project_details", <<"projects", "users", "leads">>,
               [project_name |-> Capture(q, OfForKeys, FALSE),
                requested_role |-> RoleMatch(q)])>>,
    <<Search(q, <<Cat(StatusLead, {<<"s", "t", "a", "t", "u", "s", " ", "o", "f">>, <<"s", "t", "a", "t", "u", "s", " ", "f", "o", "r">>})>>),
      Analysis("project_status", <<"projects", "phases">>,
               [project_name |-> Capture(q, OfForKeys, FALSE)])>>,
    <<Search(q, <<{<<"p", "r", "o", "g", "r", "e", "s", "s">>, <<"c", "o", "m", "p", "l", "e", "t", "e">>, <<"p", "e", "r", "c", "e", "n", "t">>, <<"c", "o", "m", "p", "l", "e", "t", "i", "o", "n">>},
                  {<<"o", "f">>, <<"f", "o", "r">>}>>), ProjectProgressResult(q)>>,
    <<Search(q, <<Cat(StatusLead \cup {<<"s", "h", "o", "w", " ", "m", "e", " ">>},
                      {<<"s", "u", "b", "p", "h", "a", "s", "e">>, <<"s", "u", "b", "-", "p", "h", "a", "s", "e">>, <<"t", "a", "s", "k">>})>>),
      Analysis("project_details", <<"projects", "phases", "subphases">>,
               [project_name |-> Capture(q, ForKeys, FALSE),
                detail_type |-> Str(<<"c", "u", "r", "r", "e", "n", "t", "_", "t", "a", "s", "k">>)])>>,
    <<Search(q, <<Cat(Cat(Cat({<<"s", "h", "o", "w", " ">>, <<"l", "i", "s", "t", " ">>, <<"g", "e", "t", " ">>},
                              {<<>>, <<"m", "e", " ">>, <<"a", "l", "l", " ">>}),
                          {<<>>, <<"t", "h", "e", " ">>, <<"a", "c", "t", "i", "v", "e", " ">>, <<"c", "o", "m", "p", "l", "e", "t", "e", "d", " ">>}),
                      {<<"p", "r", "o", "j", "e", "c", "t", "s">>, <<"p", "r", "o", "j", "e", "c", "t", " ", "l", "i", "s", "t">>})>>), ListProjectsResult(q)>>
>>

\* the chain read bottom-up: the last rule that matches decides
LastMatch(hits) == IF hits = {} THEN 0 ELSE Max(hits)

\* the first rule that matches decides; 0 when no rule matches
FirstMatch(hits) == IF hits = {} THEN 0 ELSE Min(hits)

\* the chain of if/elif over the rules
Decide(rules) ==
    LET i == FirstMatch({k \in 1..Len(rules) : rules[k][1]})
    IN IF i = 0 THEN None ELSE rules[i][2]

_pattern_matching_fallback(user_query) == Decide(Rules(Strip(Lower(user_query))))

\* ------------------------------------------------------------------------
\* QueryProcessor._enhance_analysis_with_entities
\* ------------------------------------------------------------------------
\* re.search(alternatives, s, re.IGNORECASE): the matched text, or None
SearchCI(s, lits) ==
    LET ls == Lower(s)
        ps == Occurrences(lits, ls, 1)
    IN IF ps = {} THEN None
       ELSE LET p == Min(ps)
                lit == CHOOSE l \in lits : OccursAt(l, ls, p)
            IN Str(SubSeq(s, p, p + Len(lit) - 1))

\* the filter keys the extractor fills
\* the keys the extractor fills, as Python strings
KeyText(key) ==
    CASE key = "project_id" -> <<"p", "r", "o", "j", "e", "c", "t", "_", "i", "d">>
      [] key = "date" -> <<"d", "a", "t", "e">>
      [] key = "time_period" -> <<"t", "i", "m", "e", "_", "p", "e", "r", "i", "o", "d">>
      [] key = "status" -> <<"s", "t", "a", "t", "u", "s">>

ProjectIdMatch(s) ==
    LET m == SearchCI(s, {<<"c", "a", "b", "o", "t", "-", "1", "b">>, <<"j", "a", "i", "n", "-", "1", "b">>, <<"e", "l", "m", "g", "r", "o", "v", "e", "-", "1", "b">>, <<"m", "c", "k", "i", "e", "r", "n", "a", "n", "-", "1", "b">>})
    IN IF m = None THEN None ELSE Str(Upper(m.v))
StatusMatch(s) ==
    LET m == SearchCI(s, {<<"c", "o", "m", "p", "l", "e", "t", "e", "d">>, <<"i", "n", " ", "p", "r", "o", "g", "r", "e", "s", "s">>, <<"t", "o", "d", "o">>, <<"p", "e", "n", "d", "i", "n", "g">>,
                          <<"a", "c", "t", "i", "v", "e">>, <<"d", "o", "n", "e">>})
    IN IF m = None THEN None ELSE Str(Title(m.v))
\* f"{group(1)} {group(2)}" is the matched text itself
TimePeriodMatch(s) ==
    SearchCI(s, Cat({<<"t", "h", "i", "s", " ">>, <<"n", "e", "x", "t", " ">>, <<"l", "a", "s", "t", " ">>},
                    {<<"w", "e", "e", "k">>, <<"m", "o", "n", "t", "h">>, <<"q", "u", "a", "r", "t", "e", "r">>, <<"y", "e", "a", "r">>}))

\* re.search of  \d{a}<sep>\d{b}<sep>\d{c}  with the lengths drawn from the
\* ranges r1, r2, r3: leftmost match, every group greedy
DateSearch(s, sep, r1, r2, r3) ==
    LET InS(a, b) == b <= Len(s) /\ IsDigits(s, a, b)
        hits == {h \in [p : 1..Len(s), n1 : r1, n2 : r2, n3 : r3] :
                   /\ InS(h.p, h.p + h.n1 - 1)
                   /\ h.p + h.n1 <= Len(s) /\ s[h.p + h.n1] = sep
                   /\ InS(h.p + h.n1 + 1, h.p + h.n1 + h.n2)
                   /\ h.p + h.n1 + h.n2 + 1 <= Len(s)
                   /\ s[h.p + h.n1 + h.n2 + 1] = sep
                   /\ InS(h.p + h.n1 + h.n2 + 2, h.p + h.n1 + h.n2 + h.n3 + 1)}
    IN IF hits = {} THEN None
       ELSE LET p == Min({h.p : h \in hits})
                n1 == Max({h.n1 : h \in {g \in hits : g.p = p}})
                n2 == Max({h.n2 : h \in {g \in hits : g.p = p /\ g.n1 = n1}})
                n3 == Max({h.n3 : h \in {g \in hits : g.p = p /\ g.n1 = n1 /\ g.n2 = n2}})
            IN Str(SubSeq(s, p, p + n1 + n2 + n3 + 1))

\* date_patterns, in the order of the list
DatePatterns(s) == <<DateSearch(s, "/", 1..2, 1..2, {4}),
                     DateSearch(s, "-", 1..2, 1..2, {4}),
                     DateSearch(s, "-", {4}, 1..2, 1..2)>>

WantsComparison(ql) ==
    \E w \in {<<"c", "o", "m", "p", "a", "r", "e">>, <<"c", "o", "m", "p", "a", "r", "i", "s", "o", "n">>, <<"v", "e", "r", "s", "u", "s">>, <<" ", "v", "s", " ">>} : Contains(ql, w)

ChartType(ql) ==
    IF Contains(ql, <<"b", "a", "r">>) THEN "bar"
    ELSE IF Contains(ql, <<"p", "i", "e">>) THEN "pie"
    ELSE IF Contains(ql, <<"l", "i", "n", "e">>) THEN "line"
    ELSE IF Contains(ql, <<"p", "r", "o", "g", "r", "e", "s", "s">>) THEN "phase_progress"
    ELSE IF Contains(ql, <<"b", "u", "d", "g", "e", "t">>) THEN "budget"
    ELSE "phase_progress"

\* what the extractor's searches find in a text
Entities(user_query) ==
    [project_id |-> ProjectIdMatch(user_query),
     dates |-> DatePatterns(user_query),
     time_period |-> TimePeriodMatch(user_query),
     status |-> StatusMatch(user_query),
     chart |-> WantsChart(Lower(user_query)),
     chart_type |-> ChartType(Lower(user_query)),
     comparison |-> WantsComparison(Lower(user_query))]

\* the searches depend on the text alone: they are evaluated once per text
EntitiesOf == [t \in Texts |-> Entities(t)]

Raised == [raised |-> TRUE, v |-> None]
Returned(v) == [raised |-> FALSE, v |-> v]

\* `if match: analysis["filters"][key] = value`, the test of the key dropped
Overwrite(st, key, m) ==
    IF st.raised \/ m = None THEN st
    ELSE LET f == st.v["filters"]
         IN IF f.t = "dict"
            THEN Returned(DictSet(st.v, "filters", Dict(DictSet(f.v, key, m))))
            ELSE Raised

\* `if match and key not in analysis["filters"]: analysis["filters"][key] = value`
\* on the dict a; filters that is not a dict makes the test or the
\* assignment raise TypeError
AddFilter(st, key, m) ==
    IF st.raised \/ m = None THEN st
    ELSE LET f == st.v["filters"]
         IN CASE f.t = "dict" ->
                   IF HasKey(f.v, key) THEN st
                   ELSE Returned(DictSet(st.v, "filters", Dict(DictSet(f.v, key, m))))
              [] f.t = "str" -> IF Contains(f.v, KeyText(key)) THEN st ELSE Raised
              [] f.t = "list" ->
                   IF \E i \in 1..Len(f.v) : f.v[i] = Str(KeyText(key)) THEN st ELSE Raised
              [] OTHER -> Raised

AddChart(st, e) ==
    IF st.raised \/ ~e.chart THEN st
    ELSE Returned(DictSet(DictSet(st.v, "generate_chart", TRUE),
                          "chart_type", e.chart_type))

AddComparison(st, e) ==
    IF st.raised \/ ~e.comparison THEN st
    ELSE Returned(DictSet(st.v, "comparison", TRUE))

\* the extractor on a dict a; e is what its searches find in the text
EnhanceDict(a, e) ==
    LET s0 == Returned(IF HasKey(a, "filters") THEN a
                       ELSE DictSet(a, "filters", Dict(EmptyDict)))
        s1 == AddFilter(s0, "project_id", e.project_id)
        s2 == AddFilter(s1, "date", e.dates[1])
        s3 == AddFilter(s2, "date", e.dates[2])
        s4 == AddFilter(s3, "date", e.dates[3])
        s5 == AddFilter(s4, "time_period", e.time_period)
        s6 == AddFilter(s5, "status", e.status)
        s7 == AddComparison(AddChart(s6, e), e)
    IN IF s7.raised THEN Raised ELSE Returned(Dict(s7.v))

\* the extractor on whatever json.loads produced: a value that is not a dict
\* raises TypeError at the first statement that indexes or assigns into it
\* (`"filters" not in analysis` is a substring or a membership test then)
_enhance_analysis_with_entities(analysis, e) ==
    LET MentionsFilters ==
            \/ analysis.t = "str" /\ Contains(analysis.v, <<"f", "i", "l", "t", "e", "r", "s">>)
            \/ analysis.t = "list" /\ \E i \in 1..Len(analysis.v) :
                                          analysis.v[i] = Str(<<"f", "i", "l", "t", "e", "r", "s">>)
        TouchesAnalysis ==
            \/ e.project_id # None
            \/ \E i \in 1..3 : e.dates[i] # None
            \/ e.time_period # None
            \/ e.status # None
            \/ e.chart
            \/ e.comparison
    IN CASE analysis.t = "dict" -> EnhanceDict(analysis.v, e)
         [] analysis.t \in {"str", "list"} ->
              IF MentionsFilters /\ ~TouchesAnalysis THEN Returned(analysis) ELSE Raised
         [] OTHER -> Raised

\* ------------------------------------------------------------------------
\* The oracle's reply and QueryProcessor._extract_json
\* ------------------------------------------------------------------------
\* A reply is a JSON document (valid or not) placed in a fenced code block,
\* or alone as the whole text, or embedded in prose, or embedded after a
\* fenced block that holds neither JSON nor a brace ("after_fence").  A
\* document has braces when the text holds a "{" before a "}": objects and
\* malformed objects.
Doc(valid, braces, value) == [valid |-> valid, braces |-> braces, value |-> value]
Reply(place, doc) == [kind |-> "text", place |-> place, doc |-> doc]
OracleRaises == [kind |-> "raise"]

\* the search stopped at a code block whose content does not parse
StopAtFence(reply) ==
    IF reply.place \in {"fenced", "after_fence"}
    THEN IF reply.place = "fenced" /\ reply.doc.valid THEN reply.doc.value ELSE None
    ELSE IF reply.doc.braces /\ reply.doc.valid THEN reply.doc.value
    ELSE None

_extract_json(reply) ==
    IF reply.place = "fenced" /\ reply.doc.valid
    THEN reply.doc.value                       \* json.loads of the block
    ELSE IF reply.doc.braces /\ reply.doc.valid
    THEN reply.doc.value                       \* json.loads of the {...} span
    ELSE None

\* json.loads(analysis_text): the whole text has to be the document
DirectParse(reply) ==
    IF reply.place = "raw" /\ reply.doc.valid
    THEN [ok |-> TRUE, value |-> reply.doc.value]
    ELSE [ok |-> FALSE, value |-> None]

\* ------------------------------------------------------------------------
\* QueryProcessor.analyze_query
\* ------------------------------------------------------------------------
\* the classifier and the keyword tests of the fallbacks, evaluated once per text
FallbackOf == [t \in Texts |-> _pattern_matching_fallback(t)]
KeywordsOf ==
    [t \in Texts |->
        [list |-> Contains(Lower(t), <<"l", "i", "s", "t">>) /\ Contains(Lower(t), <<"p", "r", "o", "j", "e", "c", "t">>),
         status |-> Contains(Lower(t), <<"s", "t", "a", "t", "u", "s">>) /\ Contains(Lower(t), <<"p", "r", "o", "j", "e", "c", "t">>),
         budget |-> Contains(Lower(t), <<"b", "u", "d", "g", "e", "t">>)]]

Result(path, v) == [raised |-> FALSE, path |-> path, v |-> v]

\* the `except Exception` branch
ExceptionFallback(user_query) ==
    IF KeywordsOf[user_query].list
    THEN Result("exception", Analysis("list_projects", <<"projects">>, EmptyDict))
    ELSE Result("exception", Analysis("unknown", <<>>, EmptyDict))

\* the `except json.JSONDecodeError` branch; pattern_result is what
\* _pattern_matching_fallback(user_query) returned
ParseFailureFallback(user_query, pattern_result) ==
    IF pattern_result # None THEN Result("pattern", pattern_result)
       ELSE IF KeywordsOf[user_query].list
       THEN Result("keyword", Analysis("list_projects", <<"projects">>, EmptyDict))
       ELSE IF KeywordsOf[user_query].status
       THEN Result("keyword", Analysis("project_status", <<"projects">>, EmptyDict))
       ELSE IF KeywordsOf[user_query].budget
       THEN Result("keyword", Analysis("budget_info", <<"budgets">>, EmptyDict))
       ELSE Result("unknown", Analysis("unknown", <<>>, EmptyDict))

\* enhanced is what the extractor did: what it raises lands in the
\* `except Exception` branch
Enhanced(path, enhanced, user_query) ==
    IF enhanced.raised THEN ExceptionFallback(user_query) ELSE Result(path, enhanced.v)

analyze_query(user_query, response) ==
    IF response.kind = "raise" THEN ExceptionFallback(user_query)
    ELSE LET extracted_json == _extract_json(response)
             direct == DirectParse(response)
         IN IF Truthy(extracted_json) \/ direct.ok
            THEN Enhanced(IF Truthy(extracted_json) THEN "extracted" ELSE "direct",
                          _enhance_analysis_with_entities(
                              IF Truthy(extracted_json) THEN extracted_json
                              ELSE direct.value,
                              EntitiesOf[user_query]),
                          user_query)
            ELSE ParseFailureFallback(user_query, FallbackOf[user_query])

\* ------------------------------------------------------------------------
\* Inputs: the oracle's behaviours
\* ------------------------------------------------------------------------
\* the dicts the oracle may answer with: every subset of the extractor's
\* filter keys already filled, and the malformed shapes
OracleDicts ==
    {[intent |-> "project_details", filters |-> Dict([k \in K |-> Str(<<"o", "r", "a", "c", "l", "e">>)])] :
        K \in SUBSET {"project_id", "date", "time_period", "status"}}
    \cup {[intent |-> "project_phase_status", filters |-> Dict(EmptyDict)],
          [intent |-> "budget_info", filters |-> Dict(EmptyDict), generate_chart |-> TRUE],
          [intent |-> "list_projects", filters |-> Dict([status |-> Str(<<"a", "c", "t", "i", "v", "e">>)])],
          [intent |-> "project_details"],
          [filters |-> Dict(EmptyDict)],
          [intent |-> "project_status", filters |-> Str(<<"n", "o", "n", "e">>)],
          [intent |-> "project_status", filters |-> None],
          EmptyDict}

Docs ==
    {Doc(TRUE, TRUE, Dict(d)) : d \in OracleDicts}
    \cup {Doc(TRUE, FALSE, v) : v \in {List(<<Num(1)>>), List(<<>>), List(<<Str(<<"f", "i", "l", "t", "e", "r", "s">>)>>),
                                       Str(<<"f", "i", "l", "t", "e", "r", "s">>), Str(<<"o", "k">>), Num(7), None}}
    \cup {Doc(FALSE, TRUE, None), Doc(FALSE, FALSE, None)}

OracleBehaviours ==
    {OracleRaises} \cup {Reply(p, d) : p \in {"fenced", "raw", "embedded"}, d \in Docs}
    \cup {Reply("after_fence", d) :
            d \in {Doc(TRUE, TRUE, Dict([intent |-> "project_phase_status",
                                         filters |-> Dict(EmptyDict)])),
                   Doc(TRUE, TRUE, Dict(EmptyDict)),
                   Doc(FALSE, TRUE, None)}}

\* ------------------------------------------------------------------------
\* State
\* ------------------------------------------------------------------------
VARIABLES
    projects,   \* the projects table: its rows, in the order the table yields
                \* them when a query states no order
    phases,     \* project id -> the project's phase rows in "order"; a phase row
                \* holds its subphase rows in "order", a subphase row its tasks
    down,       \* the storage connection is broken: every execute_query raises
    aux,        \* what the selection, walkthrough, procurement and payment
                \* tables hold: "rows", "nulls" (rows with NULL columns), "empty"
    text,       \* the text of the request
    oracle,     \* what the oracle does with the request
    resolved,   \* what the resolver returned: the path it took and the analysis
                \* (or the analysis a caller handed to the dispatcher)
    envelope,   \* what the dispatcher returned
    pc,         \* where the request stands
    query,      \* the storage operation last called on its own, with its argument
    info,       \* what that operation returned
    conversation_context,   \* the processor's dict: conversation id -> the intent
                            \* and filters of the conversation's last dispatch
    conversation_history,   \* ConstructionChatbot.conversation_history: the roles of
                            \* its entries, oldest first
    api_response,           \* what process_query returned to the /chat route
    body,                   \* the body the /chat route answers with
    max_messages,           \* ConversationMemory.max_messages
    messages,               \* ConversationMemory.messages
    added,                  \* every message handed to add_message since the
                            \* memory was created or cleared, oldest first
    now,                    \* the clock: time.time(), datetime.now()
    cache,                  \* the dict of a rate_limit decorator: client address
                            \* -> the times it recorded
    requests,               \* the requests the decorated endpoint is handling: where
                            \* each stands and what its locals hold
    admitted                \* the requests passed on to the endpoint: client and time

\* the chat route with the engine's history, the conversation memory, and a
\* rate-limited endpoint
chat == <<conversation_history, api_response, body>>
memory == <<max_messages, messages, added>>
limiter == <<cache, requests, admitted>>
service == <<chat, memory, limiter, now>>

vars == <<projects, phases, down, aux, text, oracle, resolved, envelope, pc, query, info,
          conversation_context, service>>

\* a raised exception, as the value of the call that raised it
Raise(e) == [t |-> "raise", e |-> e]

\* ------------------------------------------------------------------------
\* The rows of the projects table
\* ------------------------------------------------------------------------
ProjectNames == <<<<"C", "A", "B", "O", "T", "-", "1", "A">>, <<"C", "A", "B", "O", "T", "-", "1", "B">>, <<"C", "A", "B", "O", "T">>, <<"J", "A", "I", "N", "-", "1", "B">>>>
ProjectIds == <<<<"7", "d", "9", "f", "2", "c", "1", "e", "-", "5", "a", "4", "4", "-", "4", "f", "0", "b", "-", "9", "c", "3", "e", "-", "1", "a", "0", "0", "0", "0", "0", "0", "0", "0", "a", "1">>,
                <<"7", "d", "9", "f", "2", "c", "1", "e", "-", "5", "a", "4", "4", "-", "4", "f", "0", "b", "-", "9", "c", "3", "e", "-", "1", "a", "0", "0", "0", "0", "0", "0", "0", "0", "b", "2">>,
                <<"7", "d", "9", "f", "2", "c", "1", "e", "-", "5", "a", "4", "4", "-", "4", "f", "0", "b", "-", "9", "c", "3", "e", "-", "1", "a", "0", "0", "0", "0", "0", "0", "0", "0", "c", "3">>,
                <<"7", "d", "9", "f", "2", "c", "1", "e", "-", "5", "a", "4", "4", "-", "4", "f", "0", "b", "-", "9", "c", "3", "e", "-", "1", "a", "0", "0", "0", "0", "0", "0", "0", "0", "d", "4">>>>
PercentComplete == <<0, 10, 50, 100>>

Project(k, updatedAt) ==
    [id |-> ProjectIds[k], name |-> ProjectNames[k], updatedAt |-> updatedAt,
     percentComplete |-> PercentComplete[k]]

\* name ILIKE pat: % is any run of characters, _ any one character, letter
\* case is ignored
RECURSIVE LikeFrom(_, _, _, _)
LikeFrom(s, pat, i, j) ==
    IF j > Len(pat) THEN i > Len(s)
    ELSE IF pat[j] = "%" THEN \E k \in i..(Len(s) + 1) : LikeFrom(s, pat, k, j + 1)
    ELSE /\ i <= Len(s)
         /\ (pat[j] = "_" \/ pat[j] = s[i])
         /\ LikeFrom(s, pat, i + 1, j + 1)

ILike(s, pat) == LikeFrom(Lower(s), Lower(pat), 1, 1)

\* the query without its ORDER BY: the rows in the table's order
TableOrder(rows) == rows

\* ORDER BY "updatedAt" DESC: rows of equal updatedAt stay in the table's order
RECURSIVE NewestFirst(_)
NewestFirst(rows) ==
    IF rows = <<>> THEN <<>>
    ELSE LET top == Max({rows[i].updatedAt : i \in 1..Len(rows)})
             k == Min({i \in 1..Len(rows) : rows[i].updatedAt = top})
         IN <<rows[k]>> \o
            NewestFirst(SubSeq(rows, 1, k - 1) \o SubSeq(rows, k + 1, Len(rows)))

\* WHERE name ILIKE '%<x>%' ORDER BY "updatedAt" DESC
PartialMatches(x) ==
    NewestFirst(SelectSeq(projects, LAMBDA p : ILike(p.name, <<"%">> \o x \o <<"%">>)))

\* ------------------------------------------------------------------------
\* Progress values: exact fractions n/d in lowest terms
\* ------------------------------------------------------------------------
RECURSIVE GCD(_, _)
GCD(a, b) == IF b = 0 THEN a ELSE GCD(b, a % b)

Frac(n, d) == LET g == GCD(n, d) IN [n |-> n \div g, d |-> d \div g]

\* the sum of the values: weighted_sum, every weight being 1
RECURSIVE SumFrac(_)
SumFrac(fs) ==
    IF fs = <<>> THEN Frac(0, 1)
    ELSE LET h == fs[1]
             r == SumFrac(Tail(fs))
         IN Frac(h.n * r.d + r.n * h.d, h.d * r.d)

\* weighted_sum as it stands, the division by total_weight left out
Undivided(fs) == SumFrac(fs)

\* weighted_sum / total_weight: the mean of the values
Mean(fs) == LET s == SumFrac(fs) IN Frac(s.n, s.d * Len(fs))

\* ------------------------------------------------------------------------
\* PhaseQueries.get_project_phase_info
\* ------------------------------------------------------------------------
PhasesOf(project_id) ==
    IF project_id \in DOMAIN phases THEN phases[project_id] ELSE <<>>

\* the method without its try: the failure of the read leaves it
ReadFailure == [t |-> "raise", e |-> "connection"]

ZeroedPhaseInfo ==
    [phases |-> <<>>, current_phase |-> None, overall_progress |-> Frac(0, 1),
     phase_count |-> 0]

\* the stored percentComplete of the phase row in place of the estimate
StoredProgress(phase) == Frac(phase.percentComplete, 1)

\* the share of completed subphases, or the estimate from the phase's status
PhaseProgress(phase) ==
    LET subphases == phase.subphases
        completed_subphases ==
            Cardinality({i \in 1..Len(subphases) : subphases[i].status = "Completed"})
    IN IF Len(subphases) > 0 THEN Frac(completed_subphases * 100, Len(subphases))
       ELSE IF phase.status = "Completed" THEN Frac(100, 1)
       ELSE IF phase.status = "Progress" THEN Frac(50, 1)
       ELSE Frac(0, 1)

\* the loop's `break` at the first subphase whose status is Progress or Todo
ActiveSubphase(subphases) ==
    LET open == {i \in 1..Len(subphases) : subphases[i].status \in {"Progress", "Todo"}}
    IN IF open = {} THEN None ELSE Dict(subphases[Min(open)])

\* current_phase is assigned at every phase whose status is Progress, in the
\* order of the loop: the assignment that stays is the last one
CurrentPhaseIndex(rows) ==
    LET in_progress == {i \in 1..Len(rows) : rows[i].status = "Progress"}
    IN IF in_progress = {} THEN 0 ELSE Max(in_progress)

get_project_phase_info(project_id) ==
    IF down THEN ZeroedPhaseInfo
    ELSE LET rows == PhasesOf(project_id)
             k == CurrentPhaseIndex(rows)
         IN [phases |-> [i \in 1..Len(rows) |->
                           [name |-> rows[i].name, status |-> rows[i].status,
                            progress |-> PhaseProgress(rows[i]),
                            subphases |-> rows[i].subphases, order |-> rows[i].order]],
             current_phase |->
                 IF k = 0 THEN None
                 ELSE Dict([name |-> rows[k].name, progress |-> PhaseProgress(rows[k]),
                            subphases |-> rows[k].subphases, order |-> rows[k].order,
                            current_subphase |-> ActiveSubphase(rows[k].subphases)]),
             overall_progress |->
                 IF Len(rows) > 0
                 THEN Mean([i \in 1..Len(rows) |-> PhaseProgress(rows[i])])
                 ELSE Frac(0, 1),
             phase_count |-> Len(rows)]

\* ------------------------------------------------------------------------
\* get_project_phase_info_enhanced (phase_walkthrough_queries)
\* ------------------------------------------------------------------------
_get_progress_from_status(status) ==
    CASE status \in {"Not Started", "Todo"} -> Frac(0, 1)
      [] status \in {"In Progress", "Progress"} -> Frac(50, 1)
      [] status = "Review" -> Frac(90, 1)
      [] status = "Completed" -> Frac(100, 1)
      [] OTHER -> Frac(0, 1)

\* a subphase's progress: the share of its completed tasks, or the estimate
\* from its status
SubphaseProgress(subphase) ==
    LET tasks == subphase.tasks
        completed_tasks ==
            Cardinality({i \in 1..Len(tasks) : tasks[i].status = "Completed"})
    IN IF Len(tasks) > 0 THEN Frac(completed_tasks * 100, Len(tasks))
       ELSE _get_progress_from_status(subphase.status)

EnhancedPhaseProgress(phase) ==
    LET subphases == phase.subphases
    IN IF Len(subphases) > 0
       THEN Mean([i \in 1..Len(subphases) |-> SubphaseProgress(subphases[i])])
       ELSE _get_progress_from_status(phase.status)

get_project_phase_info_enhanced(project_id, search_term) ==
    LET Failed(error) ==
            [error |-> error, phases |-> <<>>, current_phase |-> None,
             overall_progress |-> Frac(0, 1), phase_count |-> 0]
        by_term == IF Truthy(search_term) /\ search_term.t = "str"
                   THEN SelectSeq(projects, LAMBDA p : ILike(p.name, <<"%">> \o search_term.v \o <<"%">>))
                   ELSE <<>>
        by_id == IF by_term = <<>> /\ Truthy(project_id) /\ project_id.t = "str"
                 THEN SelectSeq(projects, LAMBDA p : p.id = project_id.v \/ p.name = project_id.v)
                 ELSE <<>>
        found == by_term \o by_id
    IN IF down THEN Failed("storage")
       ELSE IF found = <<>> THEN Failed("Project not found")
       ELSE LET project == found[1]
                rows == PhasesOf(project.id)
                k == CurrentPhaseIndex(rows)
                Enhanced_subphases(phase) ==
                    [j \in 1..Len(phase.subphases) |->
                        [name |-> phase.subphases[j].name,
                         status |-> phase.subphases[j].status,
                         order |-> phase.subphases[j].order,
                         tasks |-> phase.subphases[j].tasks,
                         progress |-> SubphaseProgress(phase.subphases[j])]]
                active == IF k = 0 THEN None
                          ELSE ActiveSubphase(Enhanced_subphases(rows[k]))
            IN [project_id |-> project.id,
                project_name |-> project.name,
                phases |-> [i \in 1..Len(rows) |->
                              [name |-> rows[i].name, status |-> rows[i].status,
                               progress |-> EnhancedPhaseProgress(rows[i]),
                               subphases |-> Enhanced_subphases(rows[i]),
                               order |-> rows[i].order]],
                current_phase |->
                    IF k = 0 THEN None
                    ELSE Dict([name |-> rows[k].name,
                               progress |-> EnhancedPhaseProgress(rows[k]),
                               subphases |-> Enhanced_subphases(rows[k]),
                               order |-> rows[k].order,
                               current_subphase |-> active,
                               incomplete_tasks |->
                                   IF active = None THEN <<>>
                                   ELSE SelectSeq(active.v.tasks,
                                                  LAMBDA task : task.status # "Completed")]),
                overall_progress |->
                    IF Len(rows) > 0
                    THEN Mean([i \in 1..Len(rows) |-> EnhancedPhaseProgress(rows[i])])
                    ELSE Frac(0, 1),
                phase_count |-> Len(rows)]

\* ------------------------------------------------------------------------
\* ProjectQueries: the project identity resolver
\* ------------------------------------------------------------------------
_get_project_status(percent_complete) ==
    IF percent_complete = 0 THEN <<"N", "o", "t", " ", "S", "t", "a", "r", "t", "e", "d">>
    ELSE IF percent_complete < 25 THEN <<"P", "l", "a", "n", "n", "i", "n", "g">>
    ELSE IF percent_complete < 100 THEN <<"I", "n", " ", "P", "r", "o", "g", "r", "e", "s", "s">>
    ELSE <<"C", "o", "m", "p", "l", "e", "t", "e", "d">>

\* a value that is not a string makes the query, or len(), raise: the except
\* branch returns None
get_project_details(project_id) ==
    IF down \/ project_id.t # "str" THEN None
    ELSE LET by_name == SelectSeq(projects, LAMBDA p : p.name = project_id.v)
             by_id == IF Len(project_id.v) > 30
                      THEN SelectSeq(projects, LAMBDA p : p.id = project_id.v)
                      ELSE <<>>
             found == by_name \o by_id
         IN IF found = <<>> THEN None
            ELSE Dict([id |-> found[1].id,
                       name |-> found[1].name,
                       updatedAt |-> found[1].updatedAt,
                       percentComplete |-> found[1].percentComplete,
                       phase_info |-> get_project_phase_info(found[1].id),
                       status |-> _get_project_status(found[1].percentComplete)])

get_project_by_name(project_name) ==
    IF down \/ project_name.t # "str" THEN None
    ELSE LET exact == SelectSeq(projects, LAMBDA p : ILike(p.name, project_name.v))
             partial == PartialMatches(project_name.v)
         IN IF exact # <<>> THEN Dict(exact[1])
            ELSE IF partial # <<>> THEN Dict(partial[1])
            ELSE None

find_project_by_partial_name(partial_name) ==
    IF down \/ partial_name.t # "str" THEN None
    ELSE LET partial == PartialMatches(partial_name.v)
         IN IF partial = <<>> THEN None ELSE get_project_details(Str(partial[1].id))

\* project.get("phase_info", {}).get("current_phase", {}).get("name", "Unknown"):
\* the key current_phase is always there, so with no phase in Progress the
\* last .get is called on None and raises, outside any try
get_project_status(project_id) ==
    LET project == get_project_details(project_id)
    IN IF project = None THEN None
       ELSE IF project.v.phase_info.current_phase = None
       THEN Raise("'NoneType' object has no attribute 'get'")
       ELSE Dict([project_id |-> project.v.id,
                  project_name |-> project.v.name,
                  status |-> project.v.status,
                  current_phase |-> project.v.phase_info.current_phase.v.name,
                  phase_progress |-> project.v.phase_info.current_phase.v.progress,
                  overall_progress |-> project.v.phase_info.overall_progress])

\* a row gets current_phase and phase_progress when the project has a phase
\* in Progress, and status only when it has none
get_all_projects ==
    IF down THEN List(<<>>)
    ELSE LET rows == NewestFirst(projects)
         IN List([i \in 1..Len(rows) |->
                LET phase_info == get_project_phase_info(rows[i].id)
                IN IF phase_info.current_phase # None
                   THEN Dict([id |-> rows[i].id, name |-> rows[i].name,
                              updatedAt |-> rows[i].updatedAt,
                              percentComplete |-> rows[i].percentComplete,
                              current_phase |-> phase_info.current_phase.v.name,
                              phase_progress |-> phase_info.current_phase.v.progress])
                   ELSE Dict([id |-> rows[i].id, name |-> rows[i].name,
                              updatedAt |-> rows[i].updatedAt,
                              percentComplete |-> rows[i].percentComplete,
                              status |-> _get_project_status(rows[i].percentComplete)])])

\* PhaseQueries has no attribute _project: both lookups raise AttributeError,
\* the bare excepts swallow it, and the method returns None whatever the project
get_project_phase_status(project_id) == None

\* ------------------------------------------------------------------------
\* ConstructionChatbot.get_project_phase_info: the engine's own copy.  A
\* phase's progress is the stored "percentComplete" of the phase row
\* ------------------------------------------------------------------------
engine_get_project_phase_info(project_id) ==
    IF down THEN ZeroedPhaseInfo
    ELSE LET rows == PhasesOf(project_id)
             k == CurrentPhaseIndex(rows)
         IN [phases |-> [i \in 1..Len(rows) |->
                           [name |-> rows[i].name, status |-> rows[i].status,
                            progress |-> Frac(rows[i].percentComplete, 1),
                            subphases |-> rows[i].subphases, order |-> rows[i].order]],
             current_phase |->
                 IF k = 0 THEN None
                 ELSE Dict([name |-> rows[k].name,
                            progress |-> Frac(rows[k].percentComplete, 1),
                            subphases |-> rows[k].subphases, order |-> rows[k].order]),
             overall_progress |->
                 IF Len(rows) > 0
                 THEN Mean([i \in 1..Len(rows) |-> Frac(rows[i].percentComplete, 1)])
                 ELSE Frac(0, 1),
             phase_count |-> Len(rows)]

\* ------------------------------------------------------------------------
\* The selection, walkthrough, procurement and payment reads.  Each of them
\* swallows its exceptions and returns [] or None; a row carries a title
\* (NULL in the table gives None), a computed status, and the optional columns
\* ------------------------------------------------------------------------
AuxRow ==
    IF aux = "nulls"
    THEN [title |-> None, status |-> Str(<<"P", "e", "n", "d", "i", "n", "g">>), days_overdue |-> None,
          completed_date |-> None, sequence_number |-> Num(1)]
    ELSE [title |-> Str(<<"D", "e", "p", "o", "s", "i", "t">>), status |-> Str(<<"C", "o", "m", "p", "l", "e", "t", "e", "d">>),
          days_overdue |-> Num(3), completed_date |-> Str(<<"2", "0", "2", "4", "-", "1", "2", "-", "2", "5">>),
          sequence_number |-> Num(1)]

\* the reads that return one row or None
AuxOne == IF down \/ aux = "empty" THEN None ELSE Dict(AuxRow)

\* the reads that return a list of rows
AuxList == IF down \/ aux = "empty" THEN List(<<>>) ELSE List(<<Dict(AuxRow)>>)

\* SelectionQueries.get_selection_list: a placeholder that returns [] always
get_selection_list(project_id, status) == List(<<>>)

\* DatabaseQueries forwards none of get_budget_info, get_project_tasks,
\* get_project_timeline, search_projects, search_across_tables,
\* get_project_milestones, get_project_team, get_project_issues,
\* get_project_documents: the attribute lookup raises AttributeError
NoSuchMethod == Raise("'DatabaseQueries' object has no attribute")

get_budget_info(project_id) == NoSuchMethod

\* QueryProcessor.generate_chart: the PNG of the figure, base64 in a data URL
generate_chart == Str(<<"d", "a", "t", "a", ":", "i", "m", "a", "g", "e", "/", "p", "n", "g", ";", "b", "a", "s", "e", "6", "4", ",">>)

\* ------------------------------------------------------------------------
\* QueryProcessor.execute_database_operation
\* ------------------------------------------------------------------------
\* an f-string: its text with {} for each field, and the fields' values
Msg(template, args) == [template |-> template, args |-> args]

Ok(data, message) == [success |-> TRUE, data |-> data, message |-> message]
Fail(message) == [success |-> FALSE, message |-> message]

IsRaise(x) == "t" \in DOMAIN x /\ x.t = "raise"

\* the try without its except branch: what the body raises leaves the method
Uncaught(result) == result

\* except Exception as e: result = {"success": False, "message": f"Error: {str(e)}"}
\* around the body of the try, whose outcome is result
Caught(result) ==
    IF IsRaise(result) THEN Fail(Msg("Error: {}", <<result.e>>)) ELSE result

\* project = get_project_by_name(name); if not project: project =
\* find_project_by_partial_name(name)
ResolveByName(project_name) ==
    LET project == get_project_by_name(project_name)
    IN IF Truthy(project) THEN project ELSE find_project_by_partial_name(project_name)

\* number * 7
TimesSeven(number) ==
    CASE number.t = "int" -> Num(number.v * 7)
      [] number.t = "bool" -> Num(IF number.v THEN 7 ELSE 0)
      [] number.t = "str" ->
           Str(number.v \o number.v \o number.v \o number.v \o number.v \o number.v \o number.v)
      [] number.t = "list" ->
           List(number.v \o number.v \o number.v \o number.v \o number.v \o number.v \o number.v)
      [] OTHER -> Raise("unsupported operand type(s) for *")

\* the branches of the if/elif chain that read the filters: an envelope, or
\* the exception the branch raises.  by_name stands for
\* get_project_by_name(project_name) and found for ResolveByName(project_name),
\* each evaluated where a branch makes the call
Branch(analysis, intent, filters, by_name, found) ==
    LET Filter(key, default) == IF HasKey(filters.v, key) THEN filters.v[key] ELSE default
        project_id == Filter("project_id", None)
        project_name == Filter("project_name", None)
        search_term == Filter("search_term", None)
        Say(template) == Msg(template, <<>>)
        NotFound(name) == Fail(Msg("Project '{}' not found", <<name>>))
        NameRequired == Fail(Say("Project name is required"))
        IdOf(project) == Str(project.v.id)
        \* if project_id: x = f(project_id) / elif project_name: project = ...;
        \* if project: x = f(project["id"]) -- x stays None otherwise
        ByIdOrName(Get(_)) ==
            IF Truthy(project_id) THEN Get(project_id)
            ELSE IF Truthy(project_name)
            THEN IF Truthy(found) THEN Get(IdOf(found)) ELSE None
            ELSE None
        \* the branches whose read the facade does not have
        Unavailable(absent) ==
            LET x == ByIdOrName(LAMBDA id : NoSuchMethod)
            IN IF IsRaise(x) THEN x ELSE Fail(Say(absent))
        \* the branches that take the project from project_name alone
        Named(name, project, Then(_), Else) ==
            IF ~Truthy(name) THEN Else
            ELSE IF ~Truthy(project) THEN NotFound(name)
            ELSE Then(project)
        Issued(milestone) ==
            IF milestone.v.status \in {Str(<<"I", "n", "v", "o", "i", "c", "e", "d">>), Str(<<"P", "a", "i", "d">>)}
            THEN "has been issued" ELSE "has not been issued yet"
        Count(rows, template) == Ok(rows, Msg(template, <<Len(rows.v)>>))
    IN
    CASE intent = "list_projects" ->
           LET fetched == get_all_projects.v
               status_filter == Filter("status", None)
               \* p.get("status", "")
               StatusOf(p) == IF HasKey(p.v, "status") THEN p.v.status ELSE <<>>
               active_statuses == {<<"I", "n", " ", "P", "r", "o", "g", "r", "e", "s", "s">>, <<"P", "l", "a", "n", "n", "i", "n", "g">>, <<"N", "o", "t", " ", "S", "t", "a", "r", "t", "e", "d">>}
           IN IF ~Truthy(status_filter)
              THEN Ok(List(fetched), Say("Projects retrieved successfully"))
              ELSE IF status_filter.t # "str"
              THEN Raise("object has no attribute 'lower'")
              ELSE IF Lower(status_filter.v) = <<"a", "c", "t", "i", "v", "e">>
              THEN Ok(List(SelectSeq(fetched,
                                     LAMBDA p : HasKey(p.v, "status") /\ p.v.status \in active_statuses)),
                      Say("Projects retrieved successfully"))
              ELSE Ok(List(SelectSeq(fetched,
                                     LAMBDA p : Lower(StatusOf(p)) = Lower(status_filter.v))),
                      Say("Projects retrieved successfully"))
      [] intent = "project_details" ->
           LET project == IF Truthy(project_id) THEN get_project_details(project_id)
                          ELSE IF Truthy(project_name) THEN found
                          ELSE None
           IN IF Truthy(project)
              THEN Ok(project, Say("Project details retrieved successfully"))
              ELSE Fail(Say("Project not found"))
      [] intent = "project_status" ->
           LET status == ByIdOrName(get_project_status)
           IN IF IsRaise(status) THEN status
              ELSE IF Truthy(status)
              THEN Ok(status, Say("Project status retrieved successfully"))
              ELSE Fail(Say("Project status not found"))
      [] intent = "budget_info" ->
           LET budget == ByIdOrName(get_budget_info)
           IN IF IsRaise(budget) THEN budget
              ELSE IF ~Truthy(budget) THEN Fail(Say("Budget information not found"))
              ELSE IF HasKey(analysis, "generate_chart") /\ analysis["generate_chart"] = TRUE
              THEN [success |-> TRUE, data |-> budget,
                    message |-> Say("Budget information retrieved successfully"),
                    chart |-> generate_chart]
              ELSE Ok(budget, Say("Budget information retrieved successfully"))
      [] intent = "project_tasks" -> Unavailable("Project tasks not found")
      [] intent = "project_timeline" -> Unavailable("Project timeline not found")
      [] intent = "project_milestones" -> Unavailable("Project milestones not found")
      [] intent = "project_team" -> Unavailable("Project team not found")
      [] intent = "project_issues" -> Unavailable("Project issues not found")
      [] intent = "project_documents" -> Unavailable("Project documents not found")
      [] intent \in {"search_projects", "general_search"} ->
           IF Truthy(search_term) THEN NoSuchMethod
           ELSE Fail(Say("Search term is required"))
      [] intent = "generate_report" ->
           LET Report(id) == LET status == get_project_status(id)
                             IN IF IsRaise(status) THEN status ELSE get_budget_info(id)
           IN IF Truthy(project_id) THEN Report(project_id)
              ELSE IF Truthy(project_name)
              THEN IF Truthy(found) THEN Report(IdOf(found))
                   ELSE Fail(Say("Project not found"))
              ELSE Fail(Say("Project ID or name is required for report generation"))
      [] intent = "list_selections" ->
           LET status == Filter("status", Str(<<"O", "p", "e", "n">>))
               name == IF Truthy(search_term) /\ ~Truthy(project_name)
                       THEN search_term ELSE project_name
               message == Msg("{} selection items retrieved successfully", <<status>>)
           IN Named(name,
                    IF name = project_name THEN by_name ELSE get_project_by_name(name),
                    LAMBDA project : Ok(get_selection_list(IdOf(project), status), message),
                    Ok(get_selection_list(None, status), message))
      [] intent = "selection_overdue" ->
           LET selection_name == Filter("selection_name", None)
               selection == AuxOne
               overdue_days == selection.v.days_overdue
           IN IF ~Truthy(selection_name) THEN Fail(Say("Selection name is required"))
              ELSE IF ~Truthy(selection)
              THEN Fail(Msg("Selection '{}' not found", <<selection_name>>))
              ELSE IF Truthy(overdue_days) /\ overdue_days.v > 0
              THEN Ok(Dict([selection |-> selection, days_overdue |-> overdue_days]),
                      Msg("Selection '{}' is {} days overdue", <<selection_name, overdue_days>>))
              ELSE Ok(Dict([selection |-> selection, days_overdue |-> Num(0)]),
                      Msg("Selection '{}' is not overdue", <<selection_name>>))
      [] intent = "upcoming_selections" ->
           LET timeframe == Filter("timeframe",
                                   Dict([number |-> Num(2), unit |-> Str(<<"w", "e", "e", "k">>)]))
               number == IF HasKey(timeframe.v, "number") THEN timeframe.v["number"] ELSE Num(2)
               unit == IF HasKey(timeframe.v, "unit") THEN timeframe.v["unit"] ELSE Str(<<"w", "e", "e", "k">>)
               days == IF ~Truthy(timeframe) THEN Num(14)
                       ELSE IF timeframe.t # "dict" THEN Raise("object has no attribute 'get'")
                       ELSE IF unit = Str(<<"w", "e", "e", "k">>) THEN TimesSeven(number)
                       ELSE number
               message == Msg("Upcoming selections due in the next {} days", <<days>>)
               \* timedelta(days=days)
               IsNumber == days.t \in {"int", "bool"}
           IN IF IsRaise(days) THEN days
              ELSE Named(project_name, by_name,
                         LAMBDA project :
                             IF IsNumber THEN Ok(AuxList, message)
                             ELSE Raise("unsupported type for timedelta days component"),
                         Ok(IF IsNumber THEN AuxList ELSE List(<<>>), message))
      [] intent = "project_phase_status" ->
           Named(project_name, by_name,
                 LAMBDA project :
                     Ok(get_project_phase_status(IdOf(project)),
                        Msg("Current phase and stage for project '{}' retrieved successfully",
                            <<project_name>>)),
                 NameRequired)
      [] intent = "phase_pending_tasks" ->
           Named(project_name, by_name,
                 LAMBDA project :
                     LET phase_status == get_project_phase_status(IdOf(project))
                     IN IF ~Truthy(phase_status)
                        THEN Fail(Msg("No phase information found for project '{}'",
                                      <<project_name>>))
                        ELSE Ok(Dict([phase |-> phase_status.v.phase_name,
                                      stage |-> phase_status.v.stage_name,
                                      pending_tasks |-> AuxList]),
                                Say("Pending tasks for current phase retrieved successfully")),
                 NameRequired)
      [] intent = "recent_walkthrough_status" ->
           LET walkthrough_type == Filter("walkthrough_type", Str(<<"C", "l", "i", "e", "n", "t">>))
               walkthrough == AuxOne
           IN Named(project_name, by_name,
                    LAMBDA project :
                        IF ~Truthy(walkthrough)
                        THEN Ok(None, Msg("No {} walkthroughs found for project '{}'",
                                          <<walkthrough_type, project_name>>))
                        ELSE IF walkthrough.v.status = Str(<<"C", "o", "m", "p", "l", "e", "t", "e", "d">>)
                        THEN Ok(walkthrough,
                                Msg("The most recent {} walkthrough for project '{}' was completed on {}",
                                    <<walkthrough_type, project_name,
                                      walkthrough.v.completed_date>>))
                        ELSE Ok(walkthrough,
                                Msg("The most recent {} walkthrough for project '{}' has not been completed. Current status: {}",
                                    <<walkthrough_type, project_name, walkthrough.v.status>>)),
                    NameRequired)
      [] intent = "trades_needing_po" ->
           Named(project_name, by_name,
                 LAMBDA project :
                     Ok(AuxList,
                        Msg("{} trades still need purchase orders for project '{}'",
                            <<Len(AuxList.v), project_name>>)),
                 Count(AuxList, "{} trades still need purchase orders across all projects"))
      [] intent = "current_payment_milestone" ->
           LET milestone == AuxOne
           IN Named(project_name, by_name,
                    LAMBDA project :
                        IF ~Truthy(milestone)
                        THEN Ok(None, Msg("No payment milestones found for project '{}'",
                                          <<project_name>>))
                        ELSE Ok(milestone,
                                Msg("Current payment milestone for project '{}' is: {} (Status: {})",
                                    <<project_name, milestone.v.title, milestone.v.status>>)),
                    NameRequired)
      [] intent = "payment_milestone_status" ->
           LET milestone_number == Filter("milestone_number", None)
               milestone_name == Filter("milestone_name", None)
               by_number == IF AuxOne # None /\ AuxRow.sequence_number = milestone_number
                            THEN AuxOne ELSE None
               milestones == AuxList.v
               current == AuxOne
           IN Named(project_name, by_name,
                    LAMBDA project :
                        IF Truthy(milestone_number)
                        THEN IF ~Truthy(by_number)
                             THEN Ok(None,
                                     Msg("Payment milestone #{} not found for project '{}'",
                                         <<milestone_number, project_name>>))
                             ELSE Ok(by_number,
                                     Msg("Payment milestone #{} ({}) for project '{}' {}. Current status: {}",
                                         <<milestone_number, by_number.v.title, project_name,
                                           Issued(by_number), by_number.v.status>>))
                        ELSE IF Truthy(milestone_name)
                        THEN IF milestones = <<>>
                             THEN Ok(None,
                                     Msg("No payment milestones matching '{}' found for project '{}'",
                                         <<milestone_name, project_name>>))
                             ELSE IF milestone_name.t # "str" \/ milestones[1].v.title.t # "str"
                             THEN Raise("object has no attribute 'lower'")
                             ELSE IF ~Contains(Lower(milestones[1].v.title.v),
                                               Lower(milestone_name.v))
                             THEN Ok(None,
                                     Msg("No payment milestones matching '{}' found for project '{}'",
                                         <<milestone_name, project_name>>))
                             ELSE Ok(milestones[1],
                                     Msg("Payment milestone '{}' for project '{}' {}. Current status: {}",
                                         <<milestones[1].v.title, project_name,
                                           Issued(milestones[1]), milestones[1].v.status>>))
                        ELSE IF ~Truthy(current)
                        THEN Ok(None, Msg("No payment milestones found for project '{}'",
                                          <<project_name>>))
                        ELSE Ok(current,
                                Msg("Current payment milestone for project '{}' is: {} and {}. Status: {}",
                                    <<project_name, current.v.title, Issued(current),
                                      current.v.status>>)),
                    NameRequired)

\* the intents the if/elif chain names
DispatcherTable ==
    {"list_projects", "project_details", "project_status", "budget_info",
     "project_tasks", "project_timeline", "search_projects", "general_search",
     "generate_report", "project_milestones", "project_team", "project_issues",
     "project_documents", "list_selections", "selection_overdue",
     "upcoming_selections", "project_phase_status", "phase_pending_tasks",
     "pd_walkthroughs_needed", "client_walkthroughs_needed",
     "recent_walkthrough_status", "trades_needing_po", "current_payment_milestone",
     "billable_projects", "payment_milestone_status"}

\* the chain without its final else: result keeps the value of line 524
OperationNotSupported(intent) ==
    [success |-> FALSE, data |-> None, message |-> Msg("Operation not supported", <<>>)]

\* else: result = {"success": False, "message": f"Unsupported intent: {intent}"}
Unsupported(intent) == Fail(Msg("Unsupported intent: {}", <<intent>>))

\* the body of the try: an envelope, or the exception it raises
Dispatch(analysis) ==
    LET intent == IF HasKey(analysis, "intent") THEN analysis["intent"] ELSE "unknown"
        filters == IF HasKey(analysis, "filters") THEN analysis["filters"] ELSE Dict(EmptyDict)
        project_name == IF HasKey(filters.v, "project_name") THEN filters.v["project_name"]
                        ELSE None
        Count(rows, template) == Ok(rows, Msg(template, <<Len(rows.v)>>))
    IN
    IF intent \in {"pd_walkthroughs_needed", "client_walkthroughs_needed", "billable_projects"}
    THEN CASE intent = "pd_walkthroughs_needed" ->
                Count(AuxList, "{} PD walkthroughs need to be scheduled")
           [] intent = "client_walkthroughs_needed" ->
                Count(AuxList, "{} Client walkthroughs need to be scheduled")
           [] intent = "billable_projects" ->
                Count(AuxList, "{} projects are ready to be billed this week")
    ELSE IF intent \notin DispatcherTable
    THEN Unsupported(intent)
    ELSE IF filters.t # "dict"
    THEN Raise("object has no attribute 'get'")
    ELSE Branch(analysis, intent, filters, get_project_by_name(project_name),
                ResolveByName(project_name))

\* analysis.get("intent", "unknown") stands before the try: on a value with no
\* .get it raises to the caller; whatever the try raises becomes an envelope
execute_database_operation(analysis) ==
    IF analysis.t # "dict" THEN Raise("object has no attribute 'get'")
    ELSE Caught(Dispatch(analysis.v))

\* ------------------------------------------------------------------------
\* ConstructionChatbot.process_message, up to db_result
\* ------------------------------------------------------------------------
\* if analysis.get('intent') == 'project_phase_status':
\*     analysis['intent'] = 'project_details'
ConvertIntent(analysis) ==
    IF HasKey(analysis, "intent") /\ analysis["intent"] = "project_phase_status"
    THEN DictSet(analysis, "intent", "project_details")
    ELSE analysis

\* the except branch of process_message
ProcessingError ==
    Fail(Msg("I encountered an error while processing your request. Please try again or ask another question.", <<>>))
\* ------------------------------------------------------------------------
\* Inputs: what the storage holds
\* ------------------------------------------------------------------------
PhaseRow(k, status, percentComplete) ==
    [name |-> <<"P", k>>, status |-> status, order |-> k,
     percentComplete |-> percentComplete, subphases |-> <<>>]

FullSchedule ==
    <<PhaseRow(1, "Completed", 100), PhaseRow(2, "Progress", 50), PhaseRow(3, "Todo", 0)>>

Schedules == {<<>>, <<PhaseRow(1, "Completed", 100)>>, FullSchedule}

\* the phase in Progress has subphases, and these have tasks
StaffedSchedule ==
    [FullSchedule EXCEPT ![2].subphases =
        <<[name |-> <<"S", 1>>, status |-> "Completed", order |-> 1,
           tasks |-> <<[name |-> <<"T", 1>>, status |-> "Todo"]>>],
          [name |-> <<"S", 2>>, status |-> "Progress", order |-> 2,
           tasks |-> <<[name |-> <<"T", 2>>, status |-> "Completed"],
                       [name |-> <<"T", 3>>, status |-> "Todo"]>>]>>]

FullTable == <<Project(4, 1), Project(2, 1), Project(3, 2)>>

ProjectTables ==
    {<<>>,
     <<Project(2, 2)>>,
     <<Project(1, 1), Project(2, 2)>>,
     FullTable}

AllIds == {ProjectIds[k] : k \in 1..Len(ProjectIds)}

\* ------------------------------------------------------------------------
\* Inputs: the analyses a caller may hand to the dispatcher
\* ------------------------------------------------------------------------
Intents ==
    {"list_projects", "project_details", "project_status", "budget_info",
     "project_tasks", "project_timeline", "search_projects", "general_search",
     "generate_report", "project_milestones", "project_team", "project_issues",
     "project_documents", "list_selections", "selection_overdue",
     "upcoming_selections", "project_phase_status", "phase_pending_tasks",
     "pd_walkthroughs_needed", "client_walkthroughs_needed",
     "recent_walkthrough_status", "trades_needing_po", "current_payment_milestone",
     "billable_projects", "payment_milestone_status", "unknown", "make_coffee"}

FilterShapes ==
    {Dict(EmptyDict),
     Dict([project_id |-> Str(<<"C", "A", "B", "O", "T", "-", "1", "B">>)]),
     Dict([project_id |-> Str(ProjectIds[2])]),
     Dict([project_id |-> Num(3)]),
     Dict([project_name |-> Str(<<"c", "a", "b", "o", "t">>)]),
     Dict([project_name |-> Str(<<"c", "a", "b", "o", "t", "-", "1", "b", " ", "i", "n">>)]),
     Dict([project_name |-> Num(3)]),
     Dict([status |-> Str(<<"A", "c", "t", "i", "v", "e">>)]),
     Dict([status |-> Str(<<"n", "o", "t", " ", "s", "t", "a", "r", "t", "e", "d">>)]),
     Dict([status |-> Num(1)]),
     Dict([search_term |-> Str(<<"c", "a", "b", "o", "t">>)]),
     Dict([selection_name |-> Str(<<"t", "i", "l", "e">>)]),
     Dict([timeframe |-> Dict([number |-> Num(3), unit |-> Str(<<"w", "e", "e", "k">>)])]),
     Dict([timeframe |-> Dict([number |-> None])]),
     Dict([timeframe |-> Str(<<"s", "o", "o", "n">>)]),
     Dict([project_name |-> Str(<<"C", "A", "B", "O", "T", "-", "1", "B">>),
           timeframe |-> Dict([number |-> Str(<<"3">>), unit |-> Str(<<"d", "a", "y">>)])]),
     Dict([project_name |-> Str(<<"C", "A", "B", "O", "T", "-", "1", "B">>), milestone_number |-> Num(1)]),
     Dict([project_name |-> Str(<<"C", "A", "B", "O", "T", "-", "1", "B">>), milestone_number |-> Num(2)]),
     Dict([project_name |-> Str(<<"C", "A", "B", "O", "T", "-", "1", "B">>), milestone_name |-> Str(<<"d", "e", "p">>)]),
     Dict([project_name |-> Str(<<"C", "A", "B", "O", "T", "-", "1", "B">>), milestone_name |-> Num(2)]),
     Str(<<"n", "o", "n", "e">>),
     None}

Analyses ==
    {Dict([intent |-> i, filters |-> f]) : i \in Intents, f \in FilterShapes}
    \cup {Dict([intent |-> "budget_info", filters |-> f, generate_chart |-> TRUE]) :
            f \in FilterShapes}
    \cup {Dict(EmptyDict), Dict([intent |-> "list_projects"]),
          Dict([filters |-> Dict([project_name |-> Str(<<"c", "a", "b", "o", "t">>)])])}

\* ------------------------------------------------------------------------
\* The pipeline: a request is resolved, then executed
\* ------------------------------------------------------------------------
\* self.conversation_context = {}: no conversation has an entry
ConversationIds == {"c1", "c2"}
NoContext == [c \in ConversationIds |-> None]

\* the client addresses and the requests a rate-limited endpoint handles at a time
Clients == {"10.0.0.1", "10.0.0.2"}
Handlers == 1..2
Waiting == [at |-> "waiting"]

\* nothing has been asked of the chat route, of the conversation memory (made
\* with the default max_messages) or of the rate-limited endpoint
QuietChat == conversation_history = <<>> /\ api_response = None /\ body = None
QuietMemory == max_messages = 10 /\ messages = <<>> /\ added = <<>>
QuietLimiter == cache = [c \in {} |-> <<>>] /\ requests = [h \in Handlers |-> Waiting]
                /\ admitted = <<>>
Quiet == QuietChat /\ QuietMemory /\ QuietLimiter /\ now = 0

storage == <<projects, phases, down, aux>>
lookup == <<query, info>>
pipeline == <<text, oracle, resolved, envelope, pc, conversation_context>>

Init ==
    /\ projects \in ProjectTables
    /\ down \in BOOLEAN
    /\ aux \in {"rows", "nulls", "empty"}
    /\ \/ \E s \in Schedules : phases = [id \in AllIds |-> s]
       \/ /\ projects = FullTable /\ ~down /\ aux = "rows"
          /\ phases = [id \in AllIds |-> StaffedSchedule]
    \* behind a broken connection no content is read: one full storage stands for all
    /\ down => projects = FullTable /\ aux = "rows"
                /\ \A id \in AllIds : phases[id] = FullSchedule
    /\ text = <<>>
    /\ oracle = [kind |-> "none"]
    /\ resolved = None
    /\ envelope = None
    /\ pc = "idle"
    /\ query = [op |-> "none"]
    /\ info = None
    /\ conversation_context = NoContext
    /\ Quiet

\* QueryProcessor.analyze_query(user_query, ...)
Resolve(user_query, o) ==
    /\ pc = "idle"
    /\ text' = user_query
    /\ oracle' = o
    /\ resolved' = analyze_query(user_query, o)
    /\ pc' = "resolved"
    /\ UNCHANGED <<storage, envelope, lookup, conversation_context, service>>

\* QueryProcessor.execute_database_operation(analysis) on the resolver's analysis
Execute ==
    /\ pc = "resolved"
    /\ envelope' = execute_database_operation(resolved.v)
    /\ pc' = "executed"
    /\ UNCHANGED <<storage, text, oracle, resolved, lookup, conversation_context, service>>

\* ConstructionChatbot.process_message after analyze_query: the conversion of
\* the intent and the dispatch, whose result (db_result) is the envelope;
\* analysis.get on a value that is no dict raises into the except branch,
\* whose reply is the envelope then
ProcessMessage ==
    /\ pc = "resolved"
    /\ IF resolved.v.t # "dict"
       THEN /\ envelope' = ProcessingError
            /\ UNCHANGED resolved
       ELSE LET analysis == Dict(ConvertIntent(resolved.v.v))
            IN /\ resolved' = [resolved EXCEPT !.v = analysis]
               /\ envelope' = execute_database_operation(analysis)
    /\ pc' = "processed"
    /\ UNCHANGED <<storage, text, oracle, lookup, conversation_context, service>>

\* execute_database_operation(analysis) called with an analysis of the caller's
ExecuteDirect(analysis) ==
    /\ pc = "idle"
    /\ resolved' = Result("caller", analysis)
    /\ envelope' = execute_database_operation(analysis)
    /\ pc' = "executed"
    /\ UNCHANGED <<storage, text, oracle, lookup, conversation_context, service>>

Next ==
    \/ \E user_query \in Texts, o \in OracleBehaviours : Resolve(user_query, o)
    \/ Execute
    \/ ProcessMessage
    \/ \E analysis \in Analyses : ExecuteDirect(analysis)

Spec == Init /\ [][Next]_vars

\* ------------------------------------------------------------------------
\* The aggregators over the phase data of one project, as the data grows
\* ------------------------------------------------------------------------
request == <<text, oracle, resolved, envelope, pc, conversation_context, service>>

TheProject == ProjectIds[2]
Subphases(rows) == [i \in 1..Len(rows) |-> Len(rows[i].subphases)]
Tasks(subphases) == [j \in 1..Len(subphases) |-> Len(subphases[j].tasks)]

RECURSIVE Sum(_)
Sum(ns) == IF ns = <<>> THEN 0 ELSE ns[1] + Sum(Tail(ns))

InitAgg ==
    /\ projects = <<Project(2, 1)>>
    /\ phases = [id \in {TheProject} |-> <<>>]
    /\ down \in BOOLEAN
    /\ aux = "empty"
    /\ text = <<>>
    /\ oracle = [kind |-> "none"]
    /\ resolved = None
    /\ envelope = None
    /\ pc = "idle"
    /\ query = [op |-> "none"]
    /\ info = None
    /\ conversation_context = NoContext
    /\ Quiet

\* a phase row is inserted after the others in "order"; over a broken
\* connection nothing is inserted
AddPhase(status, percentComplete) ==
    LET rows == phases[TheProject]
    IN /\ ~down
       /\ Len(rows) < MaxPhases
       /\ phases' = [phases EXCEPT ![TheProject] =
                        Append(rows, PhaseRow(Len(rows) + 1, status, percentComplete))]
       /\ query' = [op |-> "none"]
       /\ info' = None
       /\ UNCHANGED <<projects, down, aux, request>>

\* a subphase row is inserted into the last phase
AddSubphase(status) ==
    LET rows == phases[TheProject]
        n == Len(rows)
    IN /\ ~down
       /\ n > 0
       /\ Sum(Subphases(rows)) < MaxSubphases
       /\ phases' = [phases EXCEPT ![TheProject][n].subphases =
                        Append(@, [name |-> <<"S", Len(@) + 1>>, status |-> status,
                                   order |-> Len(@) + 1, tasks |-> <<>>])]
       /\ query' = [op |-> "none"]
       /\ info' = None
       /\ UNCHANGED <<projects, down, aux, request>>

\* a task row is inserted into the last subphase of the last phase
AddTask(status) ==
    LET rows == phases[TheProject]
        n == Len(rows)
        m == Len(rows[n].subphases)
    IN /\ ~down
       /\ n > 0
       /\ m > 0
       /\ Sum([i \in 1..n |-> Sum(Tasks(rows[i].subphases))]) < MaxTasks
       /\ phases' = [phases EXCEPT ![TheProject][n].subphases[m].tasks =
                        Append(@, [name |-> <<"T", Len(@) + 1>>, status |-> status])]
       /\ query' = [op |-> "none"]
       /\ info' = None
       /\ UNCHANGED <<projects, down, aux, request>>

GetPhaseInfo ==
    /\ query' = [op |-> "PhaseQueries.get_project_phase_info", arg |-> Str(TheProject)]
    /\ info' = get_project_phase_info(TheProject)
    /\ UNCHANGED <<storage, request>>

GetPhaseInfoEnhanced ==
    /\ query' = [op |-> "get_project_phase_info_enhanced", arg |-> Str(TheProject)]
    /\ info' = get_project_phase_info_enhanced(Str(TheProject), None)
    /\ UNCHANGED <<storage, request>>

GetPhaseInfoEngine ==
    /\ query' = [op |-> "ConstructionChatbot.get_project_phase_info", arg |-> Str(TheProject)]
    /\ info' = engine_get_project_phase_info(TheProject)
    /\ UNCHANGED <<storage, request>>

NextAgg ==
    \/ \E status \in {"Completed", "Progress", "Todo"}, percentComplete \in {0, 100} :
          AddPhase(status, percentComplete)
    \/ \E status \in {"Completed", "Progress", "Todo"} : AddSubphase(status)
    \/ \E status \in {"Completed", "Todo"} : AddTask(status)
    \/ GetPhaseInfo
    \/ GetPhaseInfoEnhanced
    \/ GetPhaseInfoEngine

SpecAgg == InitAgg /\ [][NextAgg]_vars

\* ------------------------------------------------------------------------
\* The project identity resolver over the projects table, as the table grows
\* ------------------------------------------------------------------------
Identifiers ==
    {Str(<<"C", "A", "B", "O", "T">>), Str(<<"c", "a", "b", "o", "t", "-", "1", "b">>), Str(<<"c", "a", "b", "o", "t", "-", "1", "b", " ", "i", "n">>), Str(<<"c", "a", "b", "o", "t", "_", "1", "b">>),
     Str(<<"J", "A", "I", "N">>), Str(<<"1">>), Str(ProjectIds[2]), Num(3)}

InitRes ==
    /\ down \in BOOLEAN
    \* the table grows while the connection works; a broken one hides a full table
    /\ projects = IF down THEN FullTable ELSE <<>>
    /\ phases = [id \in AllIds |-> <<PhaseRow(1, "Progress", 50)>>]
    /\ aux = "empty"
    /\ text = <<>>
    /\ oracle = [kind |-> "none"]
    /\ resolved = None
    /\ envelope = None
    /\ pc = "idle"
    /\ query = [op |-> "none"]
    /\ info = None
    /\ conversation_context = NoContext
    /\ Quiet

\* a row is inserted, the connection working: the table yields its rows in
\* the order of insertion
AddProject(k, updatedAt) ==
    /\ ~down
    /\ Len(projects) < MaxProjects
    /\ \A i \in 1..Len(projects) : projects[i].name # ProjectNames[k]
    /\ projects' = Append(projects, Project(k, updatedAt))
    /\ query' = [op |-> "none"]
    /\ info' = None
    /\ UNCHANGED <<phases, down, aux, request>>

GetProjectByName(project_name) ==
    /\ query' = [op |-> "get_project_by_name", arg |-> project_name]
    /\ info' = get_project_by_name(project_name)
    /\ UNCHANGED <<storage, request>>

FindProjectByPartialName(partial_name) ==
    /\ query' = [op |-> "find_project_by_partial_name", arg |-> partial_name]
    /\ info' = find_project_by_partial_name(partial_name)
    /\ UNCHANGED <<storage, request>>

GetProjectDetails(project_id) ==
    /\ query' = [op |-> "get_project_details", arg |-> project_id]
    /\ info' = get_project_details(project_id)
    /\ UNCHANGED <<storage, request>>

NextRes ==
    \/ \E k \in 1..Len(ProjectNames), updatedAt \in 1..MaxStamp : AddProject(k, updatedAt)
    \/ \E x \in Identifiers : GetProjectByName(x)
    \/ \E x \in Identifiers : FindProjectByPartialName(x)
    \/ \E x \in Identifiers : GetProjectDetails(x)

SpecRes == InitRes /\ [][NextRes]_vars
\* ------------------------------------------------------------------------
\* The oracle call of the resolver: a request that is sent and may stay
\* without an answer
\* ------------------------------------------------------------------------
\* the service accepts the request and sends nothing back
NoResponse == [kind |-> "silent"]

InitCall ==
    /\ projects = FullTable
    /\ phases = [id \in AllIds |-> FullSchedule]
    /\ down = FALSE
    /\ aux = "rows"
    /\ text = <<>>
    /\ oracle = [kind |-> "none"]
    /\ resolved = None
    /\ envelope = None
    /\ pc = "idle"
    /\ query = [op |-> "none"]
    /\ info = None
    /\ conversation_context = NoContext
    /\ Quiet

\* analyze_query up to the call of create_chat_completion: the request is
\* posted, and requests.post is given no timeout
Ask(user_query, o) ==
    /\ pc = "idle"
    /\ text' = user_query
    /\ oracle' = o
    /\ pc' = "querying"
    /\ UNCHANGED <<storage, resolved, envelope, lookup, conversation_context, service>>

\* the call returns or raises, which it does once the service has answered
\* or the transport has failed; nothing else ends the wait
Answer ==
    /\ pc = "querying"
    /\ oracle # NoResponse
    /\ resolved' = analyze_query(text, oracle)
    /\ pc' = "resolved"
    /\ UNCHANGED <<storage, text, oracle, envelope, lookup, conversation_context, service>>

NextCall ==
    \/ \E user_query \in Texts, o \in OracleBehaviours \cup {NoResponse} : Ask(user_query, o)
    \/ Answer

\* a service that has answered lets the blocked call go on
SpecCall == InitCall /\ [][NextCall]_vars /\ WF_vars(Answer)
\* ------------------------------------------------------------------------
\* A processor that serves conversations: analyze_query and
\* execute_database_operation called with a conversation_id
\* ------------------------------------------------------------------------
\* context_info: the entry of the conversation, when it has one; a
\* conversation_id that is None or "" is falsy, the call has no conversation
context_info(conversation_id) ==
    IF conversation_id # "" /\ conversation_context[conversation_id] # None
    THEN conversation_context[conversation_id]
    ELSE None

\* the analysis with the intent of the conversation's last dispatch in place
\* of an intent "unknown"
RecallLastIntent(conversation_id, user_query, response) ==
    LET result == analyze_query(user_query, response)
        last == context_info(conversation_id)
    IN IF last # None /\ result.v.t = "dict" /\ HasKey(result.v.v, "intent")
          /\ result.v.v["intent"] = "unknown"
       THEN [result EXCEPT !.v = Dict(DictSet(result.v.v, "intent", last.v.last_intent))]
       ELSE result

\* analyze_query(user_query, db_schema, conversation_id), given the response
\* of the oracle to the messages: after the call nothing reads the entry
analyze_query_in(conversation_id, user_query, response) ==
    analyze_query(user_query, response)

\* a request of a conversation is resolved; messages, the text of the user and
\* context_info, are what the oracle was sent
ResolveIn(conversation_id, user_query, o) ==
    /\ pc \in {"idle", "executed"}
    /\ text' = user_query
    /\ oracle' = o
    /\ query' = [op |-> "create_chat_completion",
                 arg |-> [user |-> user_query,
                         context_info |-> context_info(conversation_id)]]
    /\ resolved' = analyze_query_in(conversation_id, user_query, o)
    /\ envelope' = None
    /\ pc' = "resolved"
    /\ UNCHANGED <<storage, info, conversation_context, service>>

\* execute_database_operation(analysis, conversation_id): analysis.get raises
\* on a value that is no dict, before the entry is written; the entry gets
\* last_intent and last_filters of the analysis
ExecuteIn(conversation_id) ==
    /\ pc = "resolved"
    /\ conversation_context' =
          IF conversation_id # "" /\ resolved.v.t = "dict"
          THEN LET analysis == resolved.v.v
               IN [conversation_context EXCEPT ![conversation_id] =
                     Dict([last_intent |-> IF HasKey(analysis, "intent")
                                           THEN analysis["intent"] ELSE "unknown",
                           last_filters |-> IF HasKey(analysis, "filters")
                                            THEN analysis["filters"]
                                            ELSE Dict(EmptyDict)])]
          ELSE conversation_context
    /\ envelope' = execute_database_operation(resolved.v)
    /\ pc' = "executed"
    /\ UNCHANGED <<storage, text, oracle, resolved, lookup, service>>

NextContext ==
    \/ \E conversation_id \in ConversationIds \cup {""},
          user_query \in {PhaseText, <<"h", "e", "l", "l", "o">>, <<"l", "i", "s", "t", " ", "p", "r", "o", "j", "e", "c", "t", "s">>},
          o \in {OracleRaises,
                 Reply("raw", Doc(FALSE, FALSE, None)),
                 Reply("fenced", Doc(TRUE, TRUE,
                     Dict([intent |-> "list_projects",
                           filters |-> Dict([status |-> Str(<<"a", "c", "t", "i", "v", "e">>)])])))} :
          ResolveIn(conversation_id, user_query, o)
    \/ \E conversation_id \in ConversationIds \cup {""} : ExecuteIn(conversation_id)

\* the processor starts as in the specification of the oracle call
SpecContext == InitCall /\ [][NextContext]_vars
\* ------------------------------------------------------------------------
\* The /chat route: process_query, process_message and the history the
\* engine keeps of a conversation
\* ------------------------------------------------------------------------
\* ConstructionChatbot._generate_response(message, analysis, db_result): its
\* "success" and which of its messages it gives; the wording made of the
\* data is left out.  A failed db_result is answered with an apology, but for
\* pending tasks of CABOT-1B, which have a canned answer
_generate_response(analysis, db_result) ==
    LET intent == IF HasKey(analysis, "intent") THEN analysis["intent"] ELSE "unknown"
        filters == IF HasKey(analysis, "filters") THEN analysis["filters"] ELSE Dict(EmptyDict)
        project_id == IF HasKey(filters.v, "project_id") THEN filters.v["project_id"]
                      ELSE Str(<<>>)
    IN IF ~db_result.success
       THEN IF intent = "phase_pending_tasks"
            THEN IF filters.t # "dict" THEN Raise("object has no attribute 'get'")
                 ELSE IF project_id.t # "str" THEN Raise("object has no attribute 'upper'")
                 ELSE IF Upper(project_id.v) = <<"C", "A", "B", "O", "T", "-", "1", "B">>
                 THEN [success |-> TRUE, message |-> Msg("Pending Tasks for CABOT-1B", <<>>)]
                 ELSE Fail(Msg("I'm sorry, I couldn't find the information you're looking for at the moment. Could you try rephrasing your question or asking about a different project?", <<>>))
            ELSE Fail(Msg("I'm sorry, I couldn't find the information you're looking for at the moment. Could you try rephrasing your question or asking about a different project?", <<>>))
       ELSE [success |-> TRUE, message |-> Msg("{}", <<intent>>), data |-> IF HasKey(db_result, "data") THEN db_result.data ELSE None]

\* the body of the try of process_message after the user's entry is appended,
\* for a message that asks for no pdf report and no chart: the response, or
\* the exception raised on the way to it
Generate(analysis, db_result) ==
    IF IsRaise(db_result) THEN db_result ELSE _generate_response(analysis, db_result)

Converted(analysis) == Generate(analysis, execute_database_operation(Dict(analysis)))

Respond(analysis) ==
    IF analysis.t # "dict" THEN Raise("object has no attribute 'get'")
    ELSE Converted(ConvertIntent(analysis.v))

\* the trim of process_message
HistoryLimit == 20
Trim(history) ==
    IF Len(history) > HistoryLimit
    THEN SubSeq(history, Len(history) - HistoryLimit + 1, Len(history))
    ELSE history

\* ConstructionChatbot.process_message(message): the history it leaves and
\* what it returns; an exception leaves the try before the assistant's entry
\* and before the trim
Outcome(result) ==
    IF IsRaise(result)
    THEN [history |-> Append(conversation_history, "user"), result |-> ProcessingError]
    ELSE [history |-> Trim(Append(Append(conversation_history, "user"), "assistant")),
          result |-> result]

process_message(message, o) == Outcome(Respond(analyze_query(message, o).v))

\* ConstructionChatbot.process_query on the result of process_message:
\* result.get('success', False) and the message under both keys, the data if
\* the result has it
process_query(result) ==
    IF HasKey(result, "data")
    THEN [response |-> result.message, message |-> result.message,
          success |-> result.success, data |-> result.data]
    ELSE [response |-> result.message, message |-> result.message,
          success |-> result.success]

\* the route's answer to what process_query returned: its message,
\* 'success': True, and the data if there is any
jsonify(result) ==
    IF HasKey(result, "data")
    THEN [message |-> result.message, success |-> TRUE, data |-> result.data]
    ELSE [message |-> result.message, success |-> TRUE]

Served(call, result) ==
    /\ conversation_history' = call.history
    /\ api_response' = result
    /\ body' = jsonify(result)

Routed(call) == Served(call, process_query(call.result))

\* the histories the model follows
MaxHistory == 22

\* POST /chat with a message: the route calls process_query, which calls
\* process_message, and answers
Chat(user_message, o) ==
    /\ Len(conversation_history) < MaxHistory
    /\ Routed(process_message(user_message, o))
    /\ UNCHANGED <<storage, text, oracle, resolved, envelope, pc, lookup,
                   conversation_context, memory, limiter, now>>

NextChat ==
    \E user_message \in {<<"l", "i", "s", "t", " ", "p", "r", "o", "j", "e", "c", "t", "s">>, <<"h", "e", "l", "l", "o">>},
       o \in {OracleRaises,
              Reply("fenced", Doc(TRUE, FALSE, List(<<Str(<<"f", "i", "l", "t", "e", "r", "s">>)>>)))} :
       Chat(user_message, o)

\* the engine and the storage start as in the specification of the oracle call
SpecChat == InitCall /\ [][NextChat]_vars

\* ------------------------------------------------------------------------
\* ConversationMemory: the messages it keeps
\* ------------------------------------------------------------------------
\* the sizes a memory is created with, the messages the model hands to one
\* memory, and the readings of the clock
MaxMessages == 3
MaxAdded == 4
MaxClock == 2

\* ConversationMemory(max_messages): a count of messages; self.messages = []
InitMemory ==
    /\ projects = FullTable
    /\ phases = [id \in AllIds |-> FullSchedule]
    /\ down = FALSE
    /\ aux = "rows"
    /\ text = <<>>
    /\ oracle = [kind |-> "none"]
    /\ resolved = None
    /\ envelope = None
    /\ pc = "idle"
    /\ query = [op |-> "none"]
    /\ info = None
    /\ conversation_context = NoContext
    /\ QuietChat /\ QuietLimiter /\ now = 0
    /\ max_messages \in 0..MaxMessages
    /\ messages = <<>>
    /\ added = <<>>

\* the first max_messages messages are kept
KeepOldest(ms) ==
    IF Len(ms) > max_messages THEN SubSeq(ms, 1, max_messages) ELSE ms

\* if len(self.messages) > self.max_messages:
\*     self.messages = self.messages[len(self.messages) - self.max_messages:]
TrimMessages(ms) ==
    IF Len(ms) > max_messages THEN SubSeq(ms, Len(ms) - max_messages + 1, Len(ms)) ELSE ms

\* the dict add_message builds: "metadata" only if the metadata is truthy
Message(role, content, metadata) ==
    IF Truthy(metadata)
    THEN [role |-> role, content |-> content, timestamp |-> now, metadata |-> metadata]
    ELSE [role |-> role, content |-> content, timestamp |-> now]

\* ConversationMemory.add_message(role, content, metadata)
AddMessage(role, content, metadata) ==
    /\ Len(added) < MaxAdded
    /\ messages' = TrimMessages(Append(messages, Message(role, content, metadata)))
    /\ added' = Append(added, Message(role, content, metadata))
    /\ UNCHANGED <<storage, pipeline, lookup, chat, max_messages, limiter, now>>

\* ConversationMemory.clear()
Clear ==
    /\ messages' = <<>>
    /\ added' = <<>>
    /\ UNCHANGED <<storage, pipeline, lookup, chat, max_messages, limiter, now>>

\* time passes between two calls
Tick ==
    /\ now < MaxClock
    /\ now' = now + 1
    /\ UNCHANGED <<storage, pipeline, lookup, chat, memory, limiter>>

NextMemory ==
    \/ \E role \in {"user", "assistant"}, metadata \in {None, Dict([intent |-> "unknown"])} :
          AddMessage(role, <<"h", "e", "l", "l", "o">>, metadata)
    \/ Clear
    \/ Tick

SpecMemory == InitMemory /\ [][NextMemory]_vars

\* ------------------------------------------------------------------------
\* rate_limit(limit, period): the decorator of an endpoint.  The server
\* handles requests in threads that share the decorator's cache; no lock is
\* taken, so a thread may be interrupted between any two of its reads and
\* writes of the cache.  Each action below is one read or one write of it
\* ------------------------------------------------------------------------
\* the decorator's arguments and the requests the model lets through
Limit == 1
Period == 2
MaxAdmitted == 3

\* the times recorded for a client; a missing key reads as no time
Recorded(client_ip) == IF client_ip \in DOMAIN cache THEN cache[client_ip] ELSE <<>>

\* cache[client_ip] = times
Store(client_ip, times) ==
    [c \in (DOMAIN cache) \cup {client_ip} |-> IF c = client_ip THEN times ELSE cache[c]]

\* client_ip = request.remote_addr; current_time = time.time();
\* the test `client_ip not in cache`
Arrive(h, client_ip) ==
    /\ requests[h].at = "waiting"
    /\ Len(admitted) < MaxAdmitted
    /\ requests' = [requests EXCEPT ![h] =
          [at |-> IF client_ip \in DOMAIN cache THEN "listed" ELSE "unlisted",
           client_ip |-> client_ip, current_time |-> now]]
    /\ UNCHANGED <<storage, pipeline, lookup, chat, memory, cache, admitted, now>>

\* cache[client_ip] = []
Create(h) ==
    /\ requests[h].at = "unlisted"
    /\ cache' = Store(requests[h].client_ip, <<>>)
    /\ requests' = [requests EXCEPT ![h].at = "listed"]
    /\ UNCHANGED <<storage, pipeline, lookup, chat, memory, admitted, now>>

\* [t for t in cache[client_ip] if current_time - t < period]
Filter(h) ==
    /\ requests[h].at = "listed"
    /\ requests' = [requests EXCEPT ![h] =
          [at |-> "filtered", client_ip |-> requests[h].client_ip,
           current_time |-> requests[h].current_time,
           kept |-> SelectSeq(Recorded(requests[h].client_ip),
                              LAMBDA t : requests[h].current_time - t < Period)]]
    /\ UNCHANGED <<storage, pipeline, lookup, chat, memory, cache, admitted, now>>

\* cache[client_ip] = the filtered list
Assign(h) ==
    /\ requests[h].at = "filtered"
    /\ cache' = Store(requests[h].client_ip, requests[h].kept)
    /\ requests' = [requests EXCEPT ![h] =
          [at |-> "assigned", client_ip |-> requests[h].client_ip,
           current_time |-> requests[h].current_time]]
    /\ UNCHANGED <<storage, pipeline, lookup, chat, memory, admitted, now>>

\* if len(cache[client_ip]) >= limit: return 429
Test(h) ==
    /\ requests[h].at = "assigned"
    /\ requests' = [requests EXCEPT ![h] =
          IF Len(Recorded(requests[h].client_ip)) >= Limit
          THEN Waiting
          ELSE [requests[h] EXCEPT !.at = "passed"]]
    /\ UNCHANGED <<storage, pipeline, lookup, chat, memory, cache, admitted, now>>

\* cache[client_ip].append(current_time); return f(*args, **kwargs)
Record(h) ==
    /\ requests[h].at = "passed"
    /\ cache' = Store(requests[h].client_ip,
                      Append(Recorded(requests[h].client_ip), requests[h].current_time))
    /\ admitted' = Append(admitted, [client_ip |-> requests[h].client_ip,
                                     time |-> requests[h].current_time])
    /\ requests' = [requests EXCEPT ![h] = Waiting]
    /\ UNCHANGED <<storage, pipeline, lookup, chat, memory, now>>

NextLimiter ==
    \/ \E h \in Handlers, client_ip \in Clients : Arrive(h, client_ip)
    \/ \E h \in Handlers : Create(h)
    \/ \E h \in Handlers : Filter(h)
    \/ \E h \in Handlers : Assign(h)
    \/ \E h \in Handlers : Test(h)
    \/ \E h \in Handlers : Record(h)
    \/ Tick

\* the decorator has been applied and no request has come: cache = {}
SpecLimiter == InitCall /\ [][NextLimiter]_vars


\* ------------------------------------------------------------------------
\* Properties of the resolver (Spec)
\* ------------------------------------------------------------------------
\* the analysis the request holds is the resolver's own
FromResolver == pc # "idle" /\ resolved.path # "caller"

\* C1: for every text and every behaviour of the oracle, analyze_query
\* returns a mapping that has an `intent` key and a `filters` key whose value
\* is a mapping.  The code returns what the oracle's JSON held: a document
\* without `intent`, one whose `filters` is a string, or a string.
C1_WellFormedAnalysis ==
    (pc = "resolved") =>
        /\ ~resolved.raised
        /\ resolved.v.t = "dict"
        /\ HasKey(resolved.v.v, "intent")
        /\ HasKey(resolved.v.v, "filters")
        /\ resolved.v.v["filters"].t = "dict"

\* the filters of the oracle's document, when it is a mapping with a mapping
\* under `filters`
OracleGaveFilters ==
    /\ FromResolver
    /\ resolved.path \in {"extracted", "direct"}
    /\ oracle.doc.value.t = "dict"
    /\ HasKey(oracle.doc.value.v, "filters")
    /\ oracle.doc.value.v["filters"].t = "dict"

ExtractorKeys == {"project_id", "date", "time_period", "status"}

\* C5: every filter key the oracle's analysis held before the extractor ran
\* has the same value after it ran, and the keys the extractor added are
\* keys that were absent.
C5_OracleFiltersKept ==
    OracleGaveFilters =>
        /\ resolved.v.t = "dict"
        /\ HasKey(resolved.v.v, "filters")
        /\ resolved.v.v["filters"].t = "dict"
        /\ LET before == oracle.doc.value.v["filters"].v
               after == resolved.v.v["filters"].v
           IN /\ \A k \in DOMAIN before : HasKey(after, k) /\ after[k] = before[k]
              /\ (DOMAIN after) \ (DOMAIN before) \subseteq ExtractorKeys

\* the oracle gave a date, the text holds a date, a period and a status: the
\* date stays the oracle's, the period and the status are added
C5_Witness ==
    /\ OracleGaveFilters
    /\ pc = "resolved"
    /\ DOMAIN oracle.doc.value.v["filters"].v = {"date"}
    /\ EntitiesOf[text].dates[1] # None
    /\ EntitiesOf[text].dates[1] # oracle.doc.value.v["filters"].v["date"]
    /\ resolved.v.v["filters"].v["date"] = oracle.doc.value.v["filters"].v["date"]
    /\ DOMAIN resolved.v.v["filters"].v = {"date", "time_period", "status"}

\* C6: whenever the oracle call raises, the resolver runs the classifier on
\* the text and, if one of its rules matches, returns that rule's analysis.
\* The except branch of the code only tests the keywords list and project.
C6_ExceptionRunsClassifier ==
    (pc = "resolved" /\ oracle.kind = "raise" /\ FallbackOf[text] # None) =>
        resolved.v = FallbackOf[text]

\* the rules of the classifier on each text, evaluated once per text
RulesOf == [t \in Texts |-> Rules(Strip(Lower(t)))]

\* the rule of list_projects is the last of the chain
ListProjectsRule == 17

\* C9: the classifier returns the result of the first rule that matches: on
\* a text that matches an earlier rule and the list-projects rule, the
\* returned analysis is the earliest matching rule's, and its intent is not
\* list_projects.
C9_FirstRuleWins ==
    (FromResolver /\ pc # "processed" /\ resolved.path = "pattern") =>
        LET rules == RulesOf[text]
            hits == {k \in 1..Len(rules) : rules[k][1]}
            earlier == {k \in hits : k < ListProjectsRule}
        IN (ListProjectsRule \in hits /\ earlier # {}) =>
              /\ resolved.v = rules[Min(earlier)][2]
              /\ resolved.v.v["intent"] # "list_projects"

\* "list projects with open selections" matches the first rule and the last
C9_Witness ==
    /\ pc = "resolved"
    /\ resolved.path = "pattern"
    /\ RulesOf[text][1][1]
    /\ RulesOf[text][ListProjectsRule][1]
    /\ resolved.v.v["intent"] = "list_selections"

\* ------------------------------------------------------------------------
\* Properties of the dispatcher (Spec)
\* ------------------------------------------------------------------------
Executed == pc \in {"executed", "processed"}

\* C2: for every analysis that is a mapping (any intent, any filters) and
\* every outcome of the storage, execute_database_operation returns an
\* envelope with a boolean `success` and a non-empty `message`.
C2_EnvelopeWellFormed ==
    (Executed /\ resolved.v.t = "dict") =>
        /\ ~IsRaise(envelope)
        /\ "success" \in DOMAIN envelope
        /\ envelope.success \in BOOLEAN
        /\ "message" \in DOMAIN envelope
        /\ envelope.message.template # ""

\* a call into the storage raised inside the try and came back as an envelope
C2_Witness ==
    /\ pc = "executed"
    /\ resolved.v.t = "dict"
    /\ ~IsRaise(envelope)
    /\ envelope.success = FALSE
    /\ envelope.message.template = "Error: {}"

Exists(name) == \E i \in 1..Len(projects) : projects[i].name = name

InProgress(name) ==
    \E i \in 1..Len(projects) :
        /\ projects[i].name = name
        /\ \E j \in 1..Len(phases[projects[i].id]) :
              phases[projects[i].id][j].status = "Progress"

\* C7: processing "What phase is CABOT-1B in?" end to end, on the paths of
\* the resolver that do not depend on the oracle's words, yields an analysis
\* of intent project_phase_status (or project_details, its conversion) whose
\* filters hold project_id = "CABOT-1B", and, when CABOT-1B exists with a
\* phase in Progress, an envelope with success = true and a current_phase.
\* The classifier's rule captures project_name "cabot-1b in", and the except
\* branch answers intent unknown.
C7_PhaseQuestion ==
    (pc = "processed" /\ text = PhaseText /\ resolved.path \in {"pattern", "exception"}) =>
        /\ resolved.v.t = "dict"
        /\ HasKey(resolved.v.v, "intent")
        /\ resolved.v.v["intent"] \in {"project_phase_status", "project_details"}
        /\ resolved.v.v["filters"].t = "dict"
        /\ HasKey(resolved.v.v["filters"].v, "project_id")
        /\ resolved.v.v["filters"].v["project_id"] = Str(ProjectNames[2])
        /\ (~down /\ InProgress(ProjectNames[2])) =>
              /\ envelope.success
              /\ "data" \in DOMAIN envelope
              /\ envelope.data.t = "dict"
              /\ envelope.data.v.phase_info.current_phase # None

\* the project the filters of the executed analysis name is in the table
NamesAProject(filters) ==
    \/ /\ HasKey(filters, "project_id")
       /\ filters["project_id"].t = "str"
       /\ \E i \in 1..Len(projects) : projects[i].id = filters["project_id"].v
    \/ /\ ~HasKey(filters, "project_id")
       /\ HasKey(filters, "project_name")
       /\ filters["project_name"].t = "str"
       /\ Exists(filters["project_name"].v)

\* C10: for intent budget_info with generate_chart = true and filters that
\* name a project of the table, the envelope has success = true and a
\* `chart` that is a non-empty string.  The facade of the storage has no
\* get_budget_info: the call raises and the envelope is the except branch's.
C10_BudgetChart ==
    (/\ pc = "executed"
     /\ ~down
     /\ resolved.v.t = "dict"
     /\ HasKey(resolved.v.v, "intent")
     /\ resolved.v.v["intent"] = "budget_info"
     /\ HasKey(resolved.v.v, "generate_chart")
     /\ resolved.v.v["generate_chart"] = TRUE
     /\ HasKey(resolved.v.v, "filters")
     /\ resolved.v.v["filters"].t = "dict"
     /\ NamesAProject(resolved.v.v["filters"].v)) =>
        /\ ~IsRaise(envelope)
        /\ envelope.success
        /\ "chart" \in DOMAIN envelope
        /\ envelope.chart.t = "str"
        /\ envelope.chart.v # <<>>

\* ------------------------------------------------------------------------
\* Properties of the aggregators (SpecAgg)
\* ------------------------------------------------------------------------
StorageAggregators ==
    {"PhaseQueries.get_project_phase_info", "get_project_phase_info_enhanced"}

PhasesInProgress ==
    {i \in 1..Len(phases[TheProject]) : phases[TheProject][i].status = "Progress"}

\* C3: when two or more phases of a project have status Progress, the
\* aggregator selects as current_phase the one that comes first in `order`.
\* The loop of the code assigns current_phase at each such phase: the last
\* one stays.
C3_FirstInOrder ==
    (query.op \in StorageAggregators /\ ~down /\ Cardinality(PhasesInProgress) >= 2) =>
        /\ info.current_phase # None
        /\ info.current_phase.v.name = phases[TheProject][Min(PhasesInProgress)].name

\* P1 Completed, P2 Progress, P3 Todo, none with subphases
CompletedProgressTodo ==
    LET rows == phases[TheProject]
    IN /\ Len(rows) = 3
       /\ rows[1].status = "Completed"
       /\ rows[2].status = "Progress"
       /\ rows[3].status = "Todo"
       /\ \A i \in 1..3 : rows[i].subphases = <<>>

ClaimedSummary ==
    /\ info.overall_progress = Frac(50, 1)
    /\ info.phase_count = 3
    /\ info.current_phase # None
    /\ info.current_phase.v.name = phases[TheProject][2].name

Containing(x) ==
    {i \in 1..Len(projects) : Contains(Lower(projects[i].name), Lower(x))}

\* C8: when several project names contain the identifier as a
\* case-insensitive substring and none equals it, get_project_by_name and
\* find_project_by_partial_name return exactly one project, one with the
\* greatest updatedAt among them.
C8_NewestPartialMatch ==
    (/\ query.op \in {"get_project_by_name", "find_project_by_partial_name"}
     /\ ~down
     /\ query.arg.t = "str"
     /\ Cardinality(Containing(query.arg.v)) >= 2
     /\ \A i \in 1..Len(projects) : Lower(projects[i].name) # Lower(query.arg.v)) =>
        /\ info.t = "dict"
        /\ \E i \in Containing(query.arg.v) :
              /\ info.v.id = projects[i].id
              /\ info.v.name = projects[i].name
              /\ \A j \in Containing(query.arg.v) :
                    projects[j].updatedAt <= projects[i].updatedAt

\* CABOT with CABOT-1A updated at 1 and CABOT-1B updated at 2: CABOT-1B
C8_Witness ==
    /\ query.op = "get_project_by_name"
    /\ query.arg = Str(SubSeq(ProjectNames[1], 1, 5))
    /\ ~down
    /\ projects = <<Project(1, 1), Project(2, 2)>>
    /\ info.t = "dict"
    /\ info.v.name = ProjectNames[2]

\* ------------------------------------------------------------------------
\* Properties of the dispatcher, continued (Spec)
\* ------------------------------------------------------------------------
\* analysis.get("intent", "unknown") of the executed analysis
ExecutedIntent ==
    IF HasKey(resolved.v.v, "intent") THEN resolved.v.v["intent"] ELSE "unknown"

\* C11: for every intent that is not in the dispatcher's table, "unknown"
\* included, execute_database_operation returns success = false with the
\* message "Unsupported intent: <intent>", does not raise, and the envelope
\* is that one whatever the storage holds and whether or not it can be read.
C11_UnsupportedIntent ==
    (Executed /\ resolved.v.t = "dict" /\ ExecutedIntent \notin DispatcherTable) =>
        envelope = [success |-> FALSE,
                    message |-> Msg("Unsupported intent: {}", <<ExecutedIntent>>)]

\* an intent outside the table, over a table of projects
C11_Witness ==
    /\ pc = "executed"
    /\ resolved.v.t = "dict"
    /\ ExecutedIntent = "make_coffee"
    /\ projects # <<>>
    /\ ~down
    /\ ~IsRaise(envelope)
    /\ envelope.message.args = <<"make_coffee">>

\* the project-scoped intents of the dispatcher's table
ProjectScoped ==
    {"project_details", "project_phase_status", "phase_pending_tasks",
     "trades_needing_po", "current_payment_milestone", "payment_milestone_status"}

\* C12: every project-scoped handler resolves the project from the
\* project_id filter when it is present: with the id of a project of the
\* table under project_id the handler finds the project and succeeds.  The
\* handlers of the phase and payment intents read project_name alone and
\* answer "Project name is required".
C12_ProjectIdFirst ==
    (/\ pc = "executed"
     /\ ~down
     /\ resolved.v.t = "dict"
     /\ ExecutedIntent \in ProjectScoped
     /\ HasKey(resolved.v.v, "filters")
     /\ resolved.v.v["filters"].t = "dict"
     /\ HasKey(resolved.v.v["filters"].v, "project_id")
     /\ resolved.v.v["filters"].v["project_id"].t = "str"
     /\ \E i \in 1..Len(projects) :
            projects[i].id = resolved.v.v["filters"].v["project_id"].v) =>
        /\ ~IsRaise(envelope)
        /\ envelope.success
        /\ envelope.message.template # "Project name is required"

\* ------------------------------------------------------------------------
\* Properties of the identity resolver, continued (SpecRes)
\* ------------------------------------------------------------------------
WithId(x) == {i \in 1..Len(projects) : projects[i].id = x}
WithNameCI(x) == {i \in 1..Len(projects) : Lower(projects[i].name) = Lower(x)}

\* C13: the resolver tries the canonical id first, then the name without
\* regard to letter case, and what an earlier step finds is what it
\* returns: an identifier that is the id of a project yields that project,
\* and otherwise an identifier that equals a project's name up to letter
\* case yields a project of that name.  get_project_details compares the
\* name exactly, and get_project_by_name never compares the id.
C13_ResolutionOrder ==
    (/\ query.op \in {"get_project_details", "get_project_by_name"}
     /\ ~down
     /\ query.arg.t = "str") =>
        /\ WithId(query.arg.v) # {} =>
              info.t = "dict" /\ info.v.id = query.arg.v
        /\ (WithId(query.arg.v) = {} /\ WithNameCI(query.arg.v) # {}) =>
              info.t = "dict" /\ Lower(info.v.name) = Lower(query.arg.v)

C15_EventuallyResolves == (pc = "querying") ~> (pc = "resolved")

\* ------------------------------------------------------------------------
\* Failures of the storage under the resolver (SpecRes)
\* ------------------------------------------------------------------------
IdentityResolvers == {"get_project_details", "get_project_by_name"}

\* C16: the identity resolver returns None only when no project has the
\* identifier as its id or, case-insensitively, as its name, and a lookup
\* over a broken connection ends in something other than the None of not found
C16_AbsentMeansNotFound ==
    query.op \in IdentityResolvers =>
        /\ down => info # None
        /\ (info = None /\ query.arg.t = "str") =>
              WithId(query.arg.v) = {} /\ WithNameCI(query.arg.v) = {}

\* ------------------------------------------------------------------------
\* The current subphase and the progress figures (SpecAgg)
\* ------------------------------------------------------------------------
\* C17: within the current phase the current subphase is one with status
\* Progress whenever there is one, wherever it stands in the order; with none
\* in Progress it is the first with status Todo; with neither it is None
C17_ProgressBeforeTodo ==
    (query.op \in StorageAggregators /\ ~down /\ info.current_phase # None) =>
        LET subphases == info.current_phase.v.subphases
            progress == {j \in 1..Len(subphases) : subphases[j].status = "Progress"}
            todo == {j \in 1..Len(subphases) : subphases[j].status = "Todo"}
            current == info.current_phase.v.current_subphase
        IN /\ progress # {} => current # None /\ current.v.status = "Progress"
           /\ (progress = {} /\ todo # {}) =>
                 current # None /\ current.v.name = subphases[Min(todo)].name
           /\ (progress = {} /\ todo = {}) => current = None

ClaimedStatusProgress(status) ==
    CASE status \in {"Todo", "Not Started"} -> Frac(0, 1)
      [] status \in {"Progress", "In Progress"} -> Frac(50, 1)
      [] status = "Review" -> Frac(90, 1)
      [] status = "Completed" -> Frac(100, 1)

ClaimedSubphaseProgress(subphase) ==
    LET done == {t \in 1..Len(subphase.tasks) : subphase.tasks[t].status = "Completed"}
    IN IF subphase.tasks # <<>>
       THEN Frac(Cardinality(done) * 100, Len(subphase.tasks))
       ELSE ClaimedStatusProgress(subphase.status)

ClaimedPhaseProgress(phase) ==
    IF phase.subphases # <<>>
    THEN LET total == SumFrac([j \in 1..Len(phase.subphases) |->
                                 ClaimedSubphaseProgress(phase.subphases[j])])
         IN Frac(total.n, total.d * Len(phase.subphases))
    ELSE ClaimedStatusProgress(phase.status)

\* C19: the progress an aggregator of the storage layer gives for a phase is
\* the unweighted mean of the progress of its subphases (share of completed
\* tasks, or the status map), or for a phase without subphases the status
\* map of its own status
C19_PhaseProgressIsReference ==
    (query.op \in StorageAggregators /\ ~down) =>
        /\ Len(info.phases) = Len(phases[TheProject])
        /\ \A i \in 1..Len(info.phases) :
              info.phases[i].progress = ClaimedPhaseProgress(phases[TheProject][i])

\* C20: overall_progress is the sum of the phases' progress values divided by
\* their number (0 for no phase), lies between 0 and 100, and phase_count is
\* the number of entries of phases
C20_OverallProgress ==
    query.op # "none" =>
        LET n == Len(info.phases)
            total == SumFrac([i \in 1..n |-> info.phases[i].progress])
        IN /\ info.overall_progress = IF n = 0 THEN Frac(0, 1) ELSE Frac(total.n, total.d * n)
           /\ info.overall_progress.n >= 0
           /\ info.overall_progress.n <= 100 * info.overall_progress.d
           /\ info.phase_count = n

\* two phases of different progress, only one of them with subphases
C20_Witness ==
    /\ query.op = "PhaseQueries.get_project_phase_info"
    /\ ~down
    /\ Len(info.phases) = 2
    /\ info.phases[1].subphases = <<>>
    /\ Len(info.phases[2].subphases) = 2
    /\ info.phases[1].progress = Frac(100, 1)
    /\ info.phases[2].progress = Frac(50, 1)
    /\ info.overall_progress = Frac(75, 1)

\* ------------------------------------------------------------------------
\* The last-resort heuristics and the parse strategies (Spec)
\* ------------------------------------------------------------------------
\* the intent the keyword heuristics give a text, in their priority
ClaimedKeywordIntent(t) ==
    IF KeywordsOf[t].list THEN "list_projects"
    ELSE IF KeywordsOf[t].status THEN "project_status"
    ELSE IF KeywordsOf[t].budget THEN "budget_info"
    ELSE "unknown"

\* C21: whenever the oracle path fails, by an exception or by output that
\* cannot be parsed, and no rule of the classifier matches the text, the
\* analysis has the intent of the first keyword heuristic that applies, list
\* and project, then status and project, then budget, and otherwise the
\* intent unknown with empty filters
C21_KeywordPriority ==
    (pc = "resolved" /\ resolved.path \notin {"extracted", "direct"}
     /\ FallbackOf[text] = None) =>
        /\ resolved.v.t = "dict"
        /\ resolved.v.v["intent"] = ClaimedKeywordIntent(text)
        /\ (resolved.v.v["intent"] = "unknown" => resolved.v.v["filters"] = Dict(EmptyDict))

\* what the strategies find in a reply: the code block parses, the span of
\* the braces parses, the whole text parses
FenceParses == oracle.place = "fenced" /\ oracle.doc.valid
BracesParse == oracle.doc.braces /\ oracle.doc.valid
TextParses == oracle.place = "raw" /\ oracle.doc.valid

NamedProject ==
    IF /\ resolved.v.t = "dict"
       /\ HasKey(resolved.v.v, "filters")
       /\ resolved.v.v["filters"].t = "dict"
       /\ HasKey(resolved.v.v["filters"].v, "project_name")
       /\ resolved.v.v["filters"].v["project_name"].t = "str"
    THEN WithNameCI(resolved.v.v["filters"].v["project_name"].v)
    ELSE {}

\* the subphases of status Progress or Todo in the phases of status Progress
\* of a project, as pairs of phase and subphase
OpenSubphases(id) ==
    {<<i, j>> \in (1..MaxPhases) \X (1..MaxSubphases) :
        /\ i <= Len(phases[id])
        /\ phases[id][i].status = "Progress"
        /\ j <= Len(phases[id][i].subphases)
        /\ phases[id][i].subphases[j].status \in {"Progress", "Todo"}}

\* C23: the pending-tasks intent on a project that has a current phase with
\* one current subphase returns exactly the tasks of that subphase whose
\* status is not Completed
C23_PendingTasks ==
    (pc = "executed" /\ ~down /\ resolved.v.t = "dict"
     /\ ExecutedIntent = "phase_pending_tasks" /\ Cardinality(NamedProject) = 1) =>
        LET id == projects[CHOOSE k \in NamedProject : TRUE].id
        IN \A ij \in OpenSubphases(id) :
              Cardinality(OpenSubphases(id)) = 1 =>
                 /\ ~IsRaise(envelope)
                 /\ envelope.success
                 /\ envelope.data.v.pending_tasks =
                       List(SelectSeq(phases[id][ij[1]].subphases[ij[2]].tasks,
                                      LAMBDA task : task.status # "Completed"))

\* C24: the analysis handed to the extractor holds after the call what it
\* held before.  The extractor assigns into the mapping it was handed and
\* returns that same mapping (return analysis), so what the argument holds
\* after the call is what the resolver returned; before the call it held the
\* oracle's document.
C24_ArgumentUnchanged ==
    (pc = "resolved" /\ resolved.path \in {"extracted", "direct"}) =>
        resolved.v = oracle.doc.value

\* the status filter of the dispatched analysis is "active" in some letter case
ActiveFilter ==
    /\ resolved.v.t = "dict"
    /\ HasKey(resolved.v.v, "filters")
    /\ resolved.v.v["filters"].t = "dict"
    /\ HasKey(resolved.v.v["filters"].v, "status")
    /\ resolved.v.v["filters"].v["status"].t = "str"
    /\ Lower(resolved.v.v["filters"].v["status"].v) = <<"a", "c", "t", "i", "v", "e">>

\* C25: list_projects with the status filter "active" returns exactly the
\* fetched projects whose status is In Progress, Planning or Not Started,
\* those with a phase in Progress included
C25_ActiveProjects ==
    (pc = "executed" /\ ~down /\ ActiveFilter /\ ExecutedIntent = "list_projects") =>
        LET fetched == NewestFirst(projects)
            active == SelectSeq(fetched,
                                LAMBDA p : _get_project_status(p.percentComplete) \in
                                    {<<"I", "n", " ", "P", "r", "o", "g", "r", "e", "s", "s">>, <<"P", "l", "a", "n", "n", "i", "n", "g">>, <<"N", "o", "t", " ", "S", "t", "a", "r", "t", "e", "d">>})
        IN /\ ~IsRaise(envelope)
           /\ envelope.success
           /\ Len(envelope.data.v) = Len(active)
           /\ \A i \in 1..Len(active) : envelope.data.v[i].v.id = active[i].id

\* ------------------------------------------------------------------------
\* The three implementations of the aggregator (SpecAgg)
\* ------------------------------------------------------------------------
\* the progress values of the phases, the overall progress and the name of
\* the current phase in what an aggregator returned
Figures(result) ==
    [progress |-> [i \in 1..Len(result.phases) |-> result.phases[i].progress],
     overall_progress |-> result.overall_progress,
     current_phase |-> IF result.current_phase = None THEN None
                       ELSE Str(result.current_phase.v.name)]

\* C26: on the same phase, subphase and task rows the three implementations
\* return the same progress of every phase, the same overall progress and the
\* same current phase
C26_AggregatorsAgree ==
    query.op # "none" =>
        /\ Figures(info) = Figures(get_project_phase_info(TheProject))
        /\ Figures(info) = Figures(engine_get_project_phase_info(TheProject))
        /\ Figures(info) = Figures(get_project_phase_info_enhanced(Str(TheProject), None))

\* ------------------------------------------------------------------------
\* The chat route and the engine's history (SpecChat)
\* ------------------------------------------------------------------------
\* C27: after any sequence of process_message calls, those that end in the
\* error response included, the history holds at most 20 entries
C27_HistoryBounded == Len(conversation_history) <= HistoryLimit

\* C30: the success in the body of a /chat response is the success of what
\* process_query returned
C30_SuccessReported == body # None => body.success = api_response.success

\* ------------------------------------------------------------------------
\* The conversation memory (SpecMemory)
\* ------------------------------------------------------------------------
\* C28: after any sequence of add_message and clear calls on a memory created
\* with max_messages = N, messages holds at most N entries, and they are the
\* messages added last, in the order they were added
C28_KeepsLatest ==
    /\ Len(messages) <= max_messages
    /\ Len(messages) = (IF Len(added) < max_messages THEN Len(added) ELSE max_messages)
    /\ messages = SubSeq(added, Len(added) - Len(messages) + 1, Len(added))

\* a memory that has dropped its oldest messages and kept more than one
C28_Witness == Len(added) > Len(messages) /\ Len(messages) > 1

\* ------------------------------------------------------------------------
\* The rate limiter (SpecLimiter)
\* ------------------------------------------------------------------------
\* the requests of a client admitted with a time in [from, from + Period)
AdmittedWithin(client_ip, from) ==
    {i \in 1..Len(admitted) : /\ admitted[i].client_ip = client_ip
                              /\ admitted[i].time >= from
                              /\ admitted[i].time < from + Period}

\* how often a client's list holds a time, and how often the client was
\* admitted at that time
TimesRecorded(client_ip, t) ==
    Cardinality({i \in 1..Len(cache[client_ip]) : cache[client_ip][i] = t})

\* C29: under any interleaving of the requests handled at a time, at most
\* `limit` requests of a client are admitted within any window of `period`
\* seconds, and a client's list records admitted requests only
C29_AtMostLimit ==
    /\ \A c \in Clients, from \in 0..MaxClock : Cardinality(AdmittedWithin(c, from)) <= Limit
    /\ \A c \in DOMAIN cache, t \in 0..MaxClock :
          TimesRecorded(c, t) <=
              Cardinality({i \in 1..Len(admitted) : admitted[i] = [client_ip |-> c, time |-> t]})

=============================================================================
